---------------------------- MODULE Spec2Model ----------------------------
(***************************************************************************)
(* A model of the financial formula engine of src/formulas.py              *)
(* (class FinancialFormulas) as a state machine: a caller invokes one      *)
(* engine function at a time with arguments drawn from bounded sets, and   *)
(* the state records the call and what it returned or raised.              *)
(*                                                                         *)
(* Numbers.  The engine computes with Python floats (IEEE-754 binary64).   *)
(* A float is modelled as the exact value (n/d) * 2^e with n, d odd and    *)
(* coprime.  Rounding inside the normal range is abstracted (the value is  *)
(* kept exact); what rounding cannot hide is kept: overflow beyond         *)
(* 2^1024, underflow to zero below 2^-1075, absorption of an addend that   *)
(* is below half an ulp of the other, division by zero and the domain      *)
(* errors of math.pow and math.log.  binary64 absorbs an addend 54 binary  *)
(* orders of magnitude below the other; the model absorbs from AbsorbGap   *)
(* orders on, which keeps its integers small.  A sum with a gap between    *)
(* the two differs from the binary64 sum by less than 2^-AbsorbGap of its  *)
(* value, and the rates a caller passes here are either ordinary or        *)
(* 2^-TinyExp, which binary64 absorbs into 1 as well.                      *)
(*                                                                         *)
(* The agent of src/agent.py (class FinancialPlanningAgent) is modelled    *)
(* next to the engine: user_data is its dict of facts and invoked the      *)
(* contexts that the call in flight passed to the language model.  calls   *)
(* holds the engine calls of callers that run concurrently.                *)
(***************************************************************************)
EXTENDS Integers, Sequences, FiniteSets, TLC

VARIABLES fn, args, res, user_data, invoked, calls

vars == <<fn, args, res, user_data, invoked, calls>>

(***************************************************************************)
(* Bounds of the model.                                                    *)
(***************************************************************************)
MaxAmount == 2
MaxPeriods == 3
AbsorbGap == 24

(***************************************************************************)
(* IEEE-754 binary64 as Python's float: the exponent range.                *)
(***************************************************************************)
FloatMaxExp == 1024
FloatMinExp == -1075

(***************************************************************************)
(* Integer helpers.                                                        *)
(***************************************************************************)
IAbs(i) == IF i < 0 THEN -i ELSE i

ISgn(i) == IF i < 0 THEN -1 ELSE IF i = 0 THEN 0 ELSE 1

RECURSIVE Gcd(_, _)
Gcd(a, b) == IF b = 0 THEN a ELSE Gcd(b, a % b)

RECURSIVE TwoAdic(_)
TwoAdic(a) == IF a % 2 = 1 THEN 0 ELSE 1 + TwoAdic(a \div 2)

RECURSIVE LgUp(_, _, _)
LgUp(a, b, k) == IF (a \div 2) \div (2^k) >= b THEN LgUp(a, b, k + 1) ELSE k

RECURSIVE LgDown(_, _, _)
LgDown(a, b, m) == IF a >= ((b - 1) \div (2^m)) + 1 THEN m ELSE LgDown(a, b, m + 1)

(***************************************************************************)
(* Float values.  d = 0 marks the non-finite values: inf, -inf and nan.    *)
(***************************************************************************)
Zero == [n |-> 0, d |-> 1, e |-> 0]

One == [n |-> 1, d |-> 1, e |-> 0]

PInf == [n |-> 1, d |-> 0, e |-> 0]

NInf == [n |-> -1, d |-> 0, e |-> 0]

NaN == [n |-> 0, d |-> 0, e |-> 0]

IsFinite(x) == x.d # 0

IsNaN(x) == x.d = 0 /\ x.n = 0

IsZero(x) == x.d # 0 /\ x.n = 0

\* (n/d) * 2^e in normal form.
Norm(n, d, e) ==
  IF n = 0 THEN Zero
  ELSE LET g == Gcd(IAbs(n), IAbs(d))
           a == IAbs(n) \div g
           b == IAbs(d) \div g
           ta == TwoAdic(a)
           tb == TwoAdic(b)
       IN [n |-> ISgn(n) * ISgn(d) * (a \div (2^ta)),
           d |-> b \div (2^tb),
           e |-> e + ta - tb]

FromInt(k) == Norm(k, 1, 0)

Frac(n, d) == Norm(n, d, 0)

Pow2(e) == [n |-> 1, d |-> 1, e |-> e]

\* floor(log2 |x|) of a finite non-zero x.
FloorLog2(x) ==
  LET a == IAbs(x.n)
  IN x.e + (IF a >= x.d THEN LgUp(a, x.d, 0) ELSE -LgDown(a, x.d, 1))

\* The float a real result rounds to: inf beyond the range, zero below it.
Fl(x) ==
  IF x.n = 0 THEN Zero
  ELSE LET l == FloorLog2(x)
       IN IF l >= FloatMaxExp THEN (IF x.n > 0 THEN PInf ELSE NInf)
          ELSE IF l < FloatMinExp \/ (l = FloatMinExp /\ IAbs(x.n) = 1 /\ x.d = 1)
               THEN Zero
          ELSE x

FNeg(x) == [x EXCEPT !.n = -x.n]

MulExact(a, b) ==
  IF a.n = 0 \/ b.n = 0 THEN Zero
  ELSE LET g1 == Gcd(IAbs(a.n), b.d)
           g2 == Gcd(IAbs(b.n), a.d)
       IN Norm((a.n \div g1) * (b.n \div g2), (a.d \div g2) * (b.d \div g1), a.e + b.e)

\* a * b
FMul(a, b) ==
  IF IsNaN(a) \/ IsNaN(b) THEN NaN
  ELSE IF ~IsFinite(a) \/ ~IsFinite(b)
       THEN (IF a.n = 0 \/ b.n = 0 THEN NaN
             ELSE IF ISgn(a.n) * ISgn(b.n) > 0 THEN PInf ELSE NInf)
  ELSE Fl(MulExact(a, b))

Recip(b) == [n |-> ISgn(b.n) * b.d, d |-> IAbs(b.n), e |-> -b.e]

AddExact(a, b) ==
  LET e0 == IF a.e < b.e THEN a.e ELSE b.e
      g == Gcd(a.d, b.d)
  IN Norm(a.n * (2^(a.e - e0)) * (b.d \div g) + b.n * (2^(b.e - e0)) * (a.d \div g),
          (a.d \div g) * b.d, e0)

\* a + b: an addend below half an ulp of the other is absorbed.
FAdd(a, b) ==
  IF IsNaN(a) \/ IsNaN(b) THEN NaN
  ELSE IF ~IsFinite(a) THEN (IF ~IsFinite(b) /\ b.n # a.n THEN NaN ELSE a)
  ELSE IF ~IsFinite(b) THEN b
  ELSE IF a.n = 0 THEN b
  ELSE IF b.n = 0 THEN a
  ELSE LET la == FloorLog2(a)
           lb == FloorLog2(b)
       IN IF la - lb >= AbsorbGap THEN a
          ELSE IF lb - la >= AbsorbGap THEN b
          ELSE Fl(AddExact(a, b))

FSub(a, b) == FAdd(a, FNeg(b))

\* abs(x)
FAbs(x) == [x EXCEPT !.n = IAbs(x.n)]

\* The sign of a - b for values that are not nan.
Cmp(a, b) ==
  IF ~IsFinite(a) \/ ~IsFinite(b)
  THEN (IF ~IsFinite(a) /\ ~IsFinite(b) THEN ISgn(a.n - b.n)
        ELSE IF ~IsFinite(a) THEN a.n ELSE -b.n)
  ELSE IF ISgn(a.n) # ISgn(b.n) THEN ISgn(ISgn(a.n) - ISgn(b.n))
  ELSE IF a.n = 0 THEN 0
  ELSE LET la == FloorLog2(a)
           lb == FloorLog2(b)
       IN IF la # lb THEN (IF la > lb THEN ISgn(a.n) ELSE -ISgn(a.n))
          ELSE ISgn(AddExact(a, FNeg(b)).n)

FLt(a, b) == ~IsNaN(a) /\ ~IsNaN(b) /\ Cmp(a, b) < 0

FLe(a, b) == ~IsNaN(a) /\ ~IsNaN(b) /\ Cmp(a, b) <= 0

FEq(a, b) == ~IsNaN(a) /\ ~IsNaN(b) /\ Cmp(a, b) = 0

(***************************************************************************)
(* Outcomes of a call: a returned value or a raised exception.             *)
(***************************************************************************)
Ok(v) == [tag |-> "ok", val |-> v]

Raise(exc, msg) == [tag |-> "raise", exc |-> exc, msg |-> msg]

IsOk(r) == r.tag = "ok"

IsRaise(r) == r.tag = "raise"

\* The one element of a singleton.  Only({e(x) : x \in {v}}) is e(v) with v
\* evaluated once; with e(x) == IF IsRaise(x) THEN x ELSE ... it is a call
\* whose exception propagates.
Only(S) == CHOOSE x \in S : TRUE

\* a / b: Python raises on a zero divisor.
FDiv(a, b) ==
  IF IsZero(b) THEN Raise("ZeroDivisionError", "float division by zero")
  ELSE IF IsNaN(a) \/ IsNaN(b) THEN Ok(NaN)
  ELSE IF ~IsFinite(b) THEN Ok(IF IsFinite(a) THEN Zero ELSE NaN)
  ELSE IF ~IsFinite(a) THEN Ok(IF ISgn(a.n) * ISgn(b.n) > 0 THEN PInf ELSE NInf)
  ELSE Ok(Fl(MulExact(a, Recip(b))))

\* x^k for finite x > 0 and k >= 1, by squaring; inf and zero beyond the range.
RECURSIVE PowNat(_, _)
PowNat(x, k) ==
  IF ~IsFinite(x) \/ x.n = 0 \/ k = 1 THEN x
  ELSE IF IAbs(x.n) = 1 /\ x.d = 1 THEN Fl([x EXCEPT !.e = x.e * k])
  ELSE LET l == FloorLog2(x)
       IN IF l >= 1 /\ l * k >= FloatMaxExp THEN PInf
          ELSE IF l <= -2 /\ (l + 1) * k < FloatMinExp THEN Zero
          ELSE IF k % 2 = 0 THEN PowNat(FMul(x, x), k \div 2)
          ELSE FMul(x, PowNat(FMul(x, x), k \div 2))

\* math.pow(x, k) for a float x >= 0 and an integer k.
math_pow(x, k) ==
  IF k = 0 THEN Ok(One)
  ELSE IF IsZero(x)
       THEN (IF k < 0 THEN Raise("ValueError", "math domain error") ELSE Ok(Zero))
  ELSE Only({IF ~IsFinite(p) THEN Raise("OverflowError", "math range error")
             ELSE Ok(p)
             : p \in {IF k > 0 THEN PowNat(x, k) ELSE PowNat(Recip(x), -k)}})


(***************************************************************************)
(* The six formula primitives.  rate and the amounts are floats, periods   *)
(* is an int.                                                              *)
(***************************************************************************)
\* future_value with the period count checked before the amount.
future_value_periods_first(present_value_, rate, periods) ==
  IF periods < 0
  THEN Raise("ValueError", "Number of periods cannot be negative")
  ELSE IF FLt(present_value_, Zero)
  THEN Raise("ValueError", "Present value cannot be negative")
  ELSE IF FLt(rate, FromInt(-1))
  THEN Raise("ValueError", "Interest rate cannot be less than -100%")
  ELSE Only({IF IsRaise(p) THEN p
             ELSE Ok(FMul(present_value_, p.val))
             : p \in {math_pow(FAdd(One, rate), periods)}})

future_value(present_value_, rate, periods) ==
  IF FLt(present_value_, Zero)
  THEN Raise("ValueError", "Present value cannot be negative")
  ELSE IF periods < 0
  THEN Raise("ValueError", "Number of periods cannot be negative")
  ELSE IF FLt(rate, FromInt(-1))
  THEN Raise("ValueError", "Interest rate cannot be less than -100%")
  ELSE Only({IF IsRaise(p) THEN p
             ELSE Ok(FMul(present_value_, p.val))
             : p \in {math_pow(FAdd(One, rate), periods)}})

\* present_value discounting over one period too many.
present_value_off_by_one(future_value_, rate, periods) ==
  IF FLt(future_value_, Zero)
  THEN Raise("ValueError", "Future value cannot be negative")
  ELSE IF periods < 0
  THEN Raise("ValueError", "Number of periods cannot be negative")
  ELSE IF FLt(rate, FromInt(-1))
  THEN Raise("ValueError", "Discount rate cannot be less than -100%")
  ELSE Only({IF IsRaise(p) THEN p
             ELSE FDiv(future_value_, p.val)
             : p \in {math_pow(FAdd(One, rate), periods + 1)}})

present_value(future_value_, rate, periods) ==
  IF FLt(future_value_, Zero)
  THEN Raise("ValueError", "Future value cannot be negative")
  ELSE IF periods < 0
  THEN Raise("ValueError", "Number of periods cannot be negative")
  ELSE IF FLt(rate, FromInt(-1))
  THEN Raise("ValueError", "Discount rate cannot be less than -100%")
  ELSE Only({IF IsRaise(p) THEN p
             ELSE FDiv(future_value_, p.val)
             : p \in {math_pow(FAdd(One, rate), periods)}})

future_value_annuity(payment, rate, periods) ==
  IF FLt(payment, Zero)
  THEN Raise("ValueError", "Payment cannot be negative")
  ELSE IF periods < 0
  THEN Raise("ValueError", "Number of periods cannot be negative")
  ELSE IF FLt(rate, FromInt(-1))
  THEN Raise("ValueError", "Interest rate cannot be less than -100%")
  ELSE IF FEq(rate, Zero)
  THEN Ok(FMul(payment, FromInt(periods)))
  ELSE Only({IF IsRaise(p) THEN p
             ELSE FDiv(FMul(payment, FSub(p.val, One)), rate)
             : p \in {math_pow(FAdd(One, rate), periods)}})

\* present_value_annuity without the branch for a zero rate.
present_value_annuity_no_zero_branch(payment, rate, periods) ==
  IF FLt(payment, Zero)
  THEN Raise("ValueError", "Payment cannot be negative")
  ELSE IF periods < 0
  THEN Raise("ValueError", "Number of periods cannot be negative")
  ELSE IF FLt(rate, FromInt(-1))
  THEN Raise("ValueError", "Discount rate cannot be less than -100%")
  ELSE Only({IF IsRaise(p) THEN p
             ELSE FDiv(FMul(payment, FSub(One, p.val)), rate)
             : p \in {math_pow(FAdd(One, rate), -periods)}})

present_value_annuity(payment, rate, periods) ==
  IF FLt(payment, Zero)
  THEN Raise("ValueError", "Payment cannot be negative")
  ELSE IF periods < 0
  THEN Raise("ValueError", "Number of periods cannot be negative")
  ELSE IF FLt(rate, FromInt(-1))
  THEN Raise("ValueError", "Discount rate cannot be less than -100%")
  ELSE IF FEq(rate, Zero)
  THEN Ok(FMul(payment, FromInt(periods)))
  ELSE Only({IF IsRaise(p) THEN p
             ELSE FDiv(FMul(payment, FSub(One, p.val)), rate)
             : p \in {math_pow(FAdd(One, rate), -periods)}})

payment_for_future_value(future_value_, rate, periods) ==
  IF FLt(future_value_, Zero)
  THEN Raise("ValueError", "Future value cannot be negative")
  ELSE IF periods <= 0
  THEN Raise("ValueError", "Number of periods must be positive")
  ELSE IF FLt(rate, FromInt(-1))
  THEN Raise("ValueError", "Interest rate cannot be less than -100%")
  ELSE IF FEq(rate, Zero)
  THEN FDiv(future_value_, FromInt(periods))
  ELSE Only({IF IsRaise(p) THEN p
             ELSE FDiv(FMul(future_value_, rate), FSub(p.val, One))
             : p \in {math_pow(FAdd(One, rate), periods)}})

payment_for_present_value(present_value_, rate, periods) ==
  IF FLt(present_value_, Zero)
  THEN Raise("ValueError", "Present value cannot be negative")
  ELSE IF periods <= 0
  THEN Raise("ValueError", "Number of periods must be positive")
  ELSE IF FLt(rate, FromInt(-1))
  THEN Raise("ValueError", "Interest rate cannot be less than -100%")
  ELSE IF FEq(rate, Zero)
  THEN FDiv(present_value_, FromInt(periods))
  ELSE Only({IF IsRaise(p) THEN p
             ELSE FDiv(FMul(present_value_, rate), FSub(One, p.val))
             : p \in {math_pow(FAdd(One, rate), -periods)}})

(***************************************************************************)
(* math.log and int().                                                     *)
(***************************************************************************)
\* The largest k >= 0 with b^k <= x, and p = b^k, for x >= 1 and b > 1.
RECURSIVE LogFloor(_, _, _, _)
LogFloor(x, b, p, k) ==
  LET q == MulExact(p, b)
  IN IF Cmp(q, x) > 0 THEN [k |-> k, p |-> p] ELSE LogFloor(x, b, q, k + 1)

\* math.log(x) / math.log(b).  The quotient is exact when it is an integer;
\* otherwise it is irrational and stands as the midpoint of the two
\* integers around it, so that its floor, its ceiling and its sign are
\* exact.
log_quotient(x, b) ==
  IF FLe(x, Zero) \/ FLe(b, Zero) THEN Raise("ValueError", "math domain error")
  ELSE IF FEq(b, One) THEN Raise("ZeroDivisionError", "float division by zero")
  ELSE IF FEq(x, One) THEN Ok(Zero)
  ELSE LET sx == Cmp(x, One)
           sb == Cmp(b, One)
           f == LogFloor(IF sx > 0 THEN x ELSE Recip(x),
                         IF sb > 0 THEN b ELSE Recip(b), One, 0)
           exact == f.p = (IF sx > 0 THEN x ELSE Recip(x))
       IN Ok(IF exact THEN FromInt(sx * sb * f.k)
             ELSE Norm(sx * sb * (2 * f.k + 1), 1, -1))

\* int(x): truncation toward zero.
int(x) ==
  IF IsNaN(x) THEN Raise("ValueError", "cannot convert float NaN to integer")
  ELSE IF ~IsFinite(x)
  THEN Raise("OverflowError", "cannot convert float infinity to integer")
  ELSE IF x.n = 0 \/ FloorLog2(x) < 0 THEN Ok(0)
  ELSE Ok(ISgn(x.n) * (IF x.e >= 0 THEN (IAbs(x.n) * (2^x.e)) \div x.d
                       ELSE IAbs(x.n) \div (x.d * (2^(-x.e)))))

(***************************************************************************)
(* The comparative decision model.                                         *)
(***************************************************************************)
_calculate_payoff_time(balance, monthly_rate, monthly_payment) ==
  IF FEq(monthly_rate, Zero) THEN FDiv(balance, monthly_payment)
  ELSE Only({
    IF IsRaise(q) THEN q
    ELSE Only({
      IF IsRaise(l) THEN l ELSE Ok(FNeg(l.val))
      : l \in {log_quotient(FSub(One, q.val), FAdd(One, monthly_rate))}})
    : q \in {FDiv(FMul(balance, monthly_rate), monthly_payment)}})

\* mortgage_record with a tie resolved to "invest".
mortgage_record_tie_invest(mortgage_balance, total_payments, monthly_payment, payoff_months, future_investment_value) ==
  LET extra_payment == monthly_payment
      total_monthly_payment == FAdd(monthly_payment, extra_payment)
      original_total_interest ==
        FSub(FMul(monthly_payment, FromInt(total_payments)), mortgage_balance)
      early_total_payments == FMul(total_monthly_payment, payoff_months)
      early_total_interest == FSub(early_total_payments, mortgage_balance)
      interest_saved == FSub(original_total_interest, early_total_interest)
      net_benefit == FSub(future_investment_value, interest_saved)
      recommendation == IF FLe(Zero, net_benefit) THEN "invest" ELSE "pay_mortgage"
  IN [mortgage_payment |-> monthly_payment,
      extra_payment |-> extra_payment,
      payoff_years |-> FDiv(payoff_months, FromInt(12)).val,
      interest_saved |-> interest_saved,
      investment_value |-> future_investment_value,
      net_benefit |-> net_benefit,
      recommendation |-> recommendation,
      analysis |-> [better |-> IF recommendation = "invest" THEN "Investing"
                               ELSE "Paying off mortgage",
                    by |-> IF FLt(net_benefit, Zero) THEN FNeg(net_benefit)
                           ELSE net_benefit]]

\* mortgage_record with a third recommendation on a tie.
mortgage_record_tie_neutral(mortgage_balance, total_payments, monthly_payment, payoff_months, future_investment_value) ==
  LET extra_payment == monthly_payment
      total_monthly_payment == FAdd(monthly_payment, extra_payment)
      original_total_interest ==
        FSub(FMul(monthly_payment, FromInt(total_payments)), mortgage_balance)
      early_total_payments == FMul(total_monthly_payment, payoff_months)
      early_total_interest == FSub(early_total_payments, mortgage_balance)
      interest_saved == FSub(original_total_interest, early_total_interest)
      net_benefit == FSub(future_investment_value, interest_saved)
      recommendation == IF FLt(Zero, net_benefit) THEN "invest"
                        ELSE IF FLt(net_benefit, Zero) THEN "pay_mortgage"
                        ELSE "neutral"
  IN [mortgage_payment |-> monthly_payment,
      extra_payment |-> extra_payment,
      payoff_years |-> FDiv(payoff_months, FromInt(12)).val,
      interest_saved |-> interest_saved,
      investment_value |-> future_investment_value,
      net_benefit |-> net_benefit,
      recommendation |-> recommendation,
      analysis |-> [better |-> IF recommendation = "invest" THEN "Investing"
                               ELSE "Paying off mortgage",
                    by |-> IF FLt(net_benefit, Zero) THEN FNeg(net_benefit)
                           ELSE net_benefit]]

\* The record built from the monthly payment, the payoff time and the value
\* of the invested extra payments.
mortgage_record(mortgage_balance, total_payments, monthly_payment, payoff_months, future_investment_value) ==
  LET extra_payment == monthly_payment
      total_monthly_payment == FAdd(monthly_payment, extra_payment)
      original_total_interest ==
        FSub(FMul(monthly_payment, FromInt(total_payments)), mortgage_balance)
      early_total_payments == FMul(total_monthly_payment, payoff_months)
      early_total_interest == FSub(early_total_payments, mortgage_balance)
      interest_saved == FSub(original_total_interest, early_total_interest)
      net_benefit == FSub(future_investment_value, interest_saved)
      recommendation == IF FLt(Zero, net_benefit) THEN "invest" ELSE "pay_mortgage"
  IN [mortgage_payment |-> monthly_payment,
      extra_payment |-> extra_payment,
      payoff_years |-> FDiv(payoff_months, FromInt(12)).val,
      interest_saved |-> interest_saved,
      investment_value |-> future_investment_value,
      net_benefit |-> net_benefit,
      recommendation |-> recommendation,
      analysis |-> [better |-> IF recommendation = "invest" THEN "Investing"
                               ELSE "Paying off mortgage",
                    by |-> IF FLt(net_benefit, Zero) THEN FNeg(net_benefit)
                           ELSE net_benefit]]

\* monthly_payment: the payment of the mortgage as it stands.
monthly_payment(mortgage_balance, mortgage_rate, mortgage_years) ==
  payment_for_present_value(mortgage_balance,
                            FDiv(mortgage_rate, FromInt(12)).val,
                            mortgage_years * 12)

\* payoff_months: the time to pay off with the payment doubled.
payoff_months(mortgage_balance, mortgage_rate, payment) ==
  _calculate_payoff_time(mortgage_balance,
                         FDiv(mortgage_rate, FromInt(12)).val,
                         FAdd(payment, payment))

\* future_investment_value: the extra payment invested until the payoff.
future_investment_value(payment, investment_return, months) ==
  Only({IF IsRaise(k) THEN k
        ELSE future_value_annuity(payment,
             FDiv(investment_return, FromInt(12)).val,
             k.val)
        : k \in {int(months)}})

mortgage_vs_invest_analysis(mortgage_balance, mortgage_rate, mortgage_years, investment_return) ==
  IF FLe(mortgage_balance, Zero)
  THEN Raise("ValueError", "Mortgage balance must be positive")
  ELSE IF FLt(mortgage_rate, Zero)
  THEN Raise("ValueError", "Mortgage rate cannot be negative")
  ELSE IF mortgage_years <= 0
  THEN Raise("ValueError", "Mortgage years must be positive")
  ELSE IF FLt(investment_return, FromInt(-1))
  THEN Raise("ValueError", "Investment return cannot be less than -100%")
  ELSE
    Only({
      IF IsRaise(mp) THEN mp
      ELSE Only({
        IF IsRaise(pm) THEN pm
        ELSE Only({
          IF IsRaise(fiv) THEN fiv
          ELSE Ok(mortgage_record(mortgage_balance, mortgage_years * 12,
                                  mp.val, pm.val, fiv.val))
          : fiv \in {future_investment_value(mp.val, investment_return, pm.val)}})
        : pm \in {payoff_months(mortgage_balance, mortgage_rate, mp.val)}})
      : mp \in {monthly_payment(mortgage_balance, mortgage_rate, mortgage_years)}})

(***************************************************************************)
(* The time-to-target solver.                                              *)
(***************************************************************************)
\* math.ceil(x) for a float x.
math_ceil(x) ==
  Only({IF IsRaise(t) THEN t
        ELSE Ok(IF x.n > 0 /\ FromInt(t.val) # x THEN t.val + 1 ELSE t.val)
        : t \in {int(x)}})

\* for _ in range(1000), and low, high = 0, 100.
Iterations == 1000

SearchHigh == 100

\* The default tolerance, 0.01.
Tolerance == Frac(1, 100)

\* Iterations after which two floats that are halved towards each other
\* are adjacent: more than the 53 bits of the significand and the 7 bits of
\* the whole part of a value below SearchHigh.
AdjacentAfter == 64

\* The value of the savings and of the contributions after j whole periods.
calculated_fv(present_value_, payment, rate, j) ==
  Only({
    IF IsRaise(a) THEN a
    ELSE Only({
      IF IsRaise(b) THEN b ELSE Ok(FAdd(a.val, b.val))
      : b \in {future_value_annuity(payment, rate, j)}})
    : a \in {future_value(present_value_, rate, j)}})

\* The branch the loop body takes on a computed value: "hit" returns,
\* "low" raises the lower end of the bracket, "high" lowers the upper end.
Compare(fv, target, tolerance) ==
  IF FLt(FAbs(FSub(fv, target)), tolerance) THEN "hit"
  ELSE IF FLt(fv, target) THEN "low"
  ELSE "high"

\* The branch taken when the midpoint truncates to j, or the exception the
\* evaluation raises.
BranchAt(p, j) ==
  Only({IF IsRaise(c) THEN c
        ELSE Ok(Compare(c.val, p.future_value, p.tolerance))
        : c \in {calculated_fv(p.present_value, p.payment, p.rate, j)}})

Mid(low, high) == FDiv(FAdd(low, high), FromInt(2)).val

IsWhole(x) == x.n = 0 \/ (x.d = 1 /\ x.e >= 0)

\* What the rest of the loop returns when it only repeats itself, or "step"
\* when the next iteration has to be taken.  Once the bracket holds no
\* whole number strictly between its ends, every later midpoint truncates
\* to the same j and the loop repeats one branch until the two floats are
\* adjacent: the end that moves reaches the end that stays (within an ulp),
\* except that an upper end halved towards a lower end of 0 stays exact.
\* Once the bracket holds one whole number j + 1, is narrower than 1, and
\* the loop goes up below j + 1 and down from j + 1 on, the ends close on
\* j + 1 and the float result is j + 1.
repeated(low, high, left, j, bj, bm) ==
  IF /\ FLe(high, FromInt(j + 1)) /\ left >= AdjacentAfter
     /\ (IsRaise(bj) \/ bj.val # "hit")
  THEN IF IsRaise(bj) THEN bj
       ELSE IF bj.val = "low"
       THEN (IF IsWhole(high) /\ IsRaise(bm) THEN bm ELSE Ok(high))
       ELSE IF IsZero(low)
       THEN Ok(Fl(Norm(high.n, high.d, high.e - left - 1)))
       ELSE Ok(low)
  ELSE IF /\ FLt(FromInt(j + 1), high) /\ FLe(high, FromInt(j + 2))
          /\ left >= AdjacentAfter
          /\ IsOk(bj) /\ IsOk(bm) /\ bj.val = "low" /\ bm.val = "high"
  THEN Ok(FromInt(j + 1))
  ELSE [tag |-> "step"]

\* The loop from iteration it on, with the bracket [low, high].
RECURSIVE search(_, _, _, _)
search(p, low, high, it) ==
  IF it = Iterations THEN Ok(Mid(low, high))
  ELSE Only({
    IF s.rest.tag # "step" THEN s.rest
    ELSE IF IsRaise(s.b) THEN s.b
    ELSE IF s.b.val = "hit" THEN Ok(s.mid)
    ELSE IF s.b.val = "low" THEN search(p, s.mid, s.high, it + 1)
    ELSE search(p, s.low, s.mid, it + 1)
    : s \in {[low |-> l, high |-> h, mid |-> Mid(l, h),
              b |-> BranchAt(p, int(Mid(l, h)).val),
              rest |-> repeated(l, h, Iterations - it, int(l).val,
                                BranchAt(p, int(l).val),
                                BranchAt(p, int(l).val + 1))]
             : l \in {low}, h \in {high}}})

_solve_for_periods(present_value_, payment, future_value_, rate) ==
  search([present_value |-> present_value_, payment |-> payment,
          future_value |-> future_value_, rate |-> rate,
          tolerance |-> Tolerance],
         Zero, FromInt(SearchHigh), 0)

(***************************************************************************)
(* The retirement age.                                                     *)
(***************************************************************************)
MinAge == 18

MaxAge == 100

Min(a, b) == IF a < b THEN a ELSE b

\* years_needed, by the branch the contributions and the return select.
years_needed(current_savings, annual_savings, target_nest_egg, expected_return) ==
  IF FEq(annual_savings, Zero)
  THEN Only({IF IsRaise(q) THEN q
             ELSE log_quotient(q.val, FAdd(One, expected_return))
             : q \in {FDiv(target_nest_egg, current_savings)}})
  ELSE IF FEq(expected_return, Zero)
  THEN FDiv(FSub(target_nest_egg, current_savings), annual_savings)
  ELSE _solve_for_periods(current_savings, annual_savings, target_nest_egg,
                          expected_return)

\* retirement_age without the cap.
retirement_age_uncapped(current_age, years) ==
  Only({IF IsRaise(c) THEN c
        ELSE Ok(FromInt(current_age + c.val))
        : c \in {math_ceil(years)}})

\* current_age + math.ceil(years_needed), capped.
retirement_age(current_age, years) ==
  Only({IF IsRaise(c) THEN c
        ELSE Ok(FromInt(Min(current_age + c.val, MaxAge)))
        : c \in {math_ceil(years)}})

\* retirement_age_calculator with the "never" outcome capped like an age.
retirement_age_calculator_never_capped(current_age, current_savings, current_income, savings_rate, target_nest_egg, expected_return) ==
  IF current_age < MinAge \/ current_age > MaxAge
  THEN Raise("ValueError", "Current age must be between 18 and 100")
  ELSE IF FLt(current_savings, Zero)
  THEN Raise("ValueError", "Current savings cannot be negative")
  ELSE IF FLe(current_income, Zero)
  THEN Raise("ValueError", "Current income must be positive")
  ELSE IF FLt(savings_rate, Zero) \/ FLt(One, savings_rate)
  THEN Raise("ValueError", "Savings rate must be between 0 and 1")
  ELSE IF FLe(target_nest_egg, Zero)
  THEN Raise("ValueError", "Target nest egg must be positive")
  ELSE IF FLt(expected_return, FromInt(-1))
  THEN Raise("ValueError", "Expected return cannot be less than -100%")
  ELSE
    Only({
      IF FEq(annual_savings, Zero) /\ FEq(current_savings, Zero)
      THEN Ok(FromInt(MaxAge))
      ELSE Only({
             IF IsRaise(years) THEN years
             ELSE retirement_age(current_age, years.val)
             : years \in {years_needed(current_savings, annual_savings,
                                       target_nest_egg, expected_return)}})
      : annual_savings \in {FMul(current_income, savings_rate)}})

retirement_age_calculator(current_age, current_savings, current_income, savings_rate, target_nest_egg, expected_return) ==
  IF current_age < MinAge \/ current_age > MaxAge
  THEN Raise("ValueError", "Current age must be between 18 and 100")
  ELSE IF FLt(current_savings, Zero)
  THEN Raise("ValueError", "Current savings cannot be negative")
  ELSE IF FLe(current_income, Zero)
  THEN Raise("ValueError", "Current income must be positive")
  ELSE IF FLt(savings_rate, Zero) \/ FLt(One, savings_rate)
  THEN Raise("ValueError", "Savings rate must be between 0 and 1")
  ELSE IF FLe(target_nest_egg, Zero)
  THEN Raise("ValueError", "Target nest egg must be positive")
  ELSE IF FLt(expected_return, FromInt(-1))
  THEN Raise("ValueError", "Expected return cannot be less than -100%")
  ELSE
    Only({
      IF FEq(annual_savings, Zero) /\ FEq(current_savings, Zero)
      THEN Ok(PInf)
      ELSE Only({IF IsRaise(years) THEN years
                 ELSE retirement_age(current_age, years.val)
                 : years \in {years_needed(current_savings, annual_savings, target_nest_egg, expected_return)}})
      : annual_savings \in {FMul(current_income, savings_rate)}})

(***************************************************************************)
(* savings_duration_calculator: the years a balance lasts under a fixed    *)
(* annual withdrawal, float('inf') when the return covers the withdrawal.  *)
(***************************************************************************)
\* ratio = current_savings * annual_return / withdrawal_rate
ratio(current_savings, withdrawal_rate, annual_return) ==
  FDiv(FMul(current_savings, annual_return), withdrawal_rate)

\* -math.log(1 - ratio) / math.log(1 + annual_return)
years_of_withdrawals(ratio_, annual_return) ==
  Only({IF IsRaise(q) THEN q ELSE Ok(FNeg(q.val))
        : q \in {log_quotient(FSub(One, ratio_), FAdd(One, annual_return))}})

savings_duration_calculator(current_savings, withdrawal_rate, annual_return) ==
  IF FLe(current_savings, Zero)
  THEN Raise("ValueError", "Current savings must be positive")
  ELSE IF FLe(withdrawal_rate, Zero)
  THEN Raise("ValueError", "Withdrawal rate must be positive")
  ELSE IF FLt(annual_return, FromInt(-1))
  THEN Raise("ValueError", "Annual return cannot be less than -100%")
  ELSE IF FLe(withdrawal_rate, FMul(current_savings, annual_return))
  THEN Ok(PInf)
  ELSE IF FEq(annual_return, Zero)
  THEN FDiv(current_savings, withdrawal_rate)
  ELSE Only({IF IsRaise(r) THEN r
             ELSE IF FLe(One, r.val) THEN Ok(PInf)
             ELSE years_of_withdrawals(r.val, annual_return)
             : r \in {ratio(current_savings, withdrawal_rate, annual_return)}})

(***************************************************************************)
(* goal_based_savings_calculator: the monthly savings that reach a target  *)
(* within a horizon, 0 when the current savings get there by themselves.   *)
(***************************************************************************)
\* annual_savings / 12 for what is still needed.
monthly_savings(additional_needed, expected_return, time_horizon) ==
  Only({IF IsRaise(annual_savings) THEN annual_savings
        ELSE FDiv(annual_savings.val, FromInt(12))
        : annual_savings \in {payment_for_future_value(additional_needed, expected_return, time_horizon)}})

goal_based_savings_calculator(target_amount, time_horizon, current_savings, expected_return) ==
  IF FLe(target_amount, Zero)
  THEN Raise("ValueError", "Target amount must be positive")
  ELSE IF time_horizon <= 0
  THEN Raise("ValueError", "Time horizon must be positive")
  ELSE IF FLt(current_savings, Zero)
  THEN Raise("ValueError", "Current savings cannot be negative")
  ELSE IF FLt(expected_return, FromInt(-1))
  THEN Raise("ValueError", "Expected return cannot be less than -100%")
  ELSE Only({
    IF IsRaise(future_current_savings) THEN future_current_savings
    ELSE Only({
      IF FLe(additional_needed, Zero) THEN Ok(Zero)
      ELSE monthly_savings(additional_needed, expected_return, time_horizon)
      : additional_needed \in {FSub(target_amount, future_current_savings.val)}})
    : future_current_savings \in {future_value(current_savings, expected_return, time_horizon)}})

(***************************************************************************)
(* calculate_rule_of_72 and inflation_adjusted_return.                     *)
(***************************************************************************)
\* A rule of 72 that keeps the rate in an attribute of the engine, which
\* the callers share: it reads the smallest rate of the calls in flight.
calculate_rule_of_72_shared_rate(interest_rate) ==
  Only({
    IF FLe(rate, Zero)
    THEN Raise("ValueError", "Interest rate must be positive")
    ELSE FDiv(Frac(18, 25), rate)
    : rate \in {CHOOSE r \in {interest_rate} \cup
                               {calls[c].args.interest_rate : c \in
                                  {d \in DOMAIN calls :
                                     /\ calls[d].fn = "calculate_rule_of_72"
                                     /\ calls[d].res.tag = "running"}} :
                  \A other \in {interest_rate} \cup
                               {calls[c].args.interest_rate : c \in
                                  {d \in DOMAIN calls :
                                     /\ calls[d].fn = "calculate_rule_of_72"
                                     /\ calls[d].res.tag = "running"}} :
                    FLe(r, other)}})

calculate_rule_of_72(interest_rate) ==
  IF FLe(interest_rate, Zero)
  THEN Raise("ValueError", "Interest rate must be positive")
  ELSE FDiv(Frac(18, 25), interest_rate)

\* inflation_adjusted_return with the quotient upside down.
inflation_adjusted_return_inverted(nominal_return, inflation_rate) ==
  Only({IF IsRaise(q) THEN q ELSE Ok(FSub(q.val, One))
        : q \in {FDiv(FAdd(One, inflation_rate), FAdd(One, nominal_return))}})

inflation_adjusted_return(nominal_return, inflation_rate) ==
  Only({IF IsRaise(q) THEN q ELSE Ok(FSub(q.val, One))
        : q \in {FDiv(FAdd(One, nominal_return), FAdd(One, inflation_rate))}})

(***************************************************************************)
(* utils.validate_financial_input.  A Python value is None, a float or a   *)
(* str; a str is the sequence of its characters.                           *)
(***************************************************************************)
None == [kind |-> "None"]

Float(x) == [kind |-> "float", val |-> x]

Str(s) == [kind |-> "str", chars |-> s]

Digits == <<"0", "1", "2", "3", "4", "5", "6", "7", "8", "9">>

IsDigit(c) == \E i \in 1 .. Len(Digits) : Digits[i] = c

\* str.strip(): without the blanks at both ends.
RECURSIVE strip(_)
strip(s) ==
  IF s = <<>> THEN s
  ELSE IF Head(s) = " " THEN strip(Tail(s))
  ELSE IF s[Len(s)] = " " THEN strip(SubSeq(s, 1, Len(s) - 1))
  ELSE s

\* The number a sequence of digits writes.
RECURSIVE NatOf(_)
NatOf(s) ==
  IF s = <<>> THEN 0
  ELSE 10 * NatOf(SubSeq(s, 1, Len(s) - 1)) + (CHOOSE i \in 1 .. Len(Digits) : Digits[i] = s[Len(s)]) - 1

\* float(s) for an unsigned literal: digits with at most one point and at
\* least one digit, "nan", "inf" or "infinity".
float_unsigned(s) ==
  IF s = <<"n", "a", "n">> THEN Ok(NaN)
  ELSE IF s \in {<<"i", "n", "f">>, <<"i", "n", "f", "i", "n", "i", "t", "y">>}
  THEN Ok(PInf)
  ELSE IF /\ \A i \in 1 .. Len(s) : IsDigit(s[i]) \/ s[i] = "."
          /\ Cardinality({i \in 1 .. Len(s) : s[i] = "."}) <= 1
          /\ \E i \in 1 .. Len(s) : IsDigit(s[i])
  THEN Ok(Frac(NatOf(SelectSeq(s, IsDigit)),
               10 ^ Cardinality({i \in 1 .. Len(s) :
                                   /\ IsDigit(s[i])
                                   /\ \E j \in 1 .. i : s[j] = "."})))
  ELSE Raise("ValueError", "could not convert string to float")

\* float(value): a float is itself, a str is parsed, None is a TypeError.
float(value) ==
  IF value.kind = "float" THEN Ok(value.val)
  ELSE IF value.kind = "None"
  THEN Raise("TypeError", "float() argument must be a string or a real number")
  ELSE Only({
    IF s # <<>> /\ Head(s) = "-"
    THEN Only({IF IsRaise(u) THEN u ELSE Ok(FNeg(u.val))
               : u \in {float_unsigned(Tail(s))}})
    ELSE IF s # <<>> /\ Head(s) = "+" THEN float_unsigned(Tail(s))
    ELSE float_unsigned(s)
    : s \in {strip(value.chars)}})

\* format(x, ".<decimals>f"): x rounded to the decimals, ties to even.
round_to(x, decimals) ==
  IF ~IsFinite(x) THEN x
  ELSE Only({
    Only({
      Frac(ISgn(x.n) * (IF FLt(Frac(1, 2), FSub(y, FromInt(t)))
                           \/ (FEq(Frac(1, 2), FSub(y, FromInt(t))) /\ t % 2 = 1)
                        THEN t + 1 ELSE t),
           10 ^ decimals)
      : t \in {int(y).val}})
    : y \in {FMul(FAbs(x), FromInt(10 ^ decimals))}})

\* utils.format_currency(amount) with the default decimals: the text is
\* the rupee sign, a rounded number and a unit.
format_currency(amount) ==
  IF amount.kind = "None"
  THEN [symbol |-> "₹", number |-> Zero, unit |-> ""]
  ELSE IF FLe(FromInt(10000000), amount.val)
  THEN [symbol |-> "₹", unit |-> " Cr",
        number |-> round_to(FDiv(amount.val, FromInt(10000000)).val, 1)]
  ELSE IF FLe(FromInt(100000), amount.val)
  THEN [symbol |-> "₹", unit |-> " L",
        number |-> round_to(FDiv(amount.val, FromInt(100000)).val, 1)]
  ELSE [symbol |-> "₹", unit |-> "", number |-> round_to(amount.val, 0)]

\* The bound as the message shows it: as currency when
\* 'income' in field_name.lower() or 'savings' in field_name.lower().
bound_text(field_name, bound) ==
  IF field_name \in {"income", "Savings"} THEN format_currency(bound)
  ELSE bound

\* The result is the pair (is_valid, error_message); a message is the
\* sequence of its pieces, the empty message has none.
validate_financial_input(value, field_name, min_value, max_value) ==
  IF value = None THEN <<FALSE, <<field_name, " is required">>>>
  ELSE Only({
    IF IsRaise(numeric_value)
    THEN <<FALSE, <<field_name, " must be a valid number">>>>
    ELSE IF min_value # None /\ FLt(numeric_value.val, min_value.val)
    THEN <<FALSE, <<field_name, " cannot be less than ",
                    bound_text(field_name, min_value)>>>>
    ELSE IF max_value # None /\ FLt(max_value.val, numeric_value.val)
    THEN <<FALSE, <<field_name, " cannot be greater than ",
                    bound_text(field_name, max_value)>>>>
    ELSE <<TRUE, <<>>>>
    : numeric_value \in {float(value)}})

(***************************************************************************)
(* The loop of _solve_for_periods, iteration by iteration.  The ends of    *)
(* the bracket are floats: a midpoint that needs more than                 *)
(* SignificandBits bits is rounded to the nearest float, ties to even      *)
(* (binary64 keeps 53 bits).                                               *)
(***************************************************************************)
SignificandBits == 16

\* A finite dyadic x rounded to SignificandBits significant bits.
round_significand(x) ==
  IF x.n = 0 THEN x
  ELSE Only({
    IF s <= 0 THEN x
    ELSE Only({
      Norm(ISgn(x.n) * (IF 2 * (IAbs(x.n) % (2 ^ s)) > 2 ^ s
                           \/ (2 * (IAbs(x.n) % (2 ^ s)) = 2 ^ s /\ q % 2 = 1)
                        THEN q + 1 ELSE q), 1, x.e + s)
      : q \in {IAbs(x.n) \div (2 ^ s)}})
    : s \in {(FloorLog2(x) - SignificandBits + 1) - x.e}})

\* mid = (low + high) / 2 with low + high taken for the midpoint itself.
mid_without_halving(low, high) == round_significand(FAdd(low, high))

\* mid = (low + high) / 2
mid(low, high) == round_significand(Mid(low, high))

\* The state of the loop before iteration it.
Loop(low, high, it) == [tag |-> "loop", low |-> low, high |-> high, it |-> it]

\* One pass through the loop body from the loop state s, or the return
\* after the last pass: the next loop state, the value returned or the
\* exception raised.
iteration(p, s) ==
  IF s.it = Iterations THEN Ok(mid(s.low, s.high))
  ELSE Only({
    Only({
      IF IsRaise(b) THEN b
      ELSE IF b.val = "hit" THEN Ok(m)
      ELSE IF b.val = "low" THEN Loop(m, s.high, s.it + 1)
      ELSE Loop(s.low, m, s.it + 1)
      : b \in {BranchAt(p, int(m).val)}})
    : m \in {mid(s.low, s.high)}})

(***************************************************************************)
(* agent.py: the text of a message is the sequence of its characters.      *)
(* The regular expressions of _extract_financial_data are sequences of     *)
(* items, an item being a character class repeated between lo and hi       *)
(* times, as many times as the rest of the expression allows; an           *)
(* alternation at the top is a sequence of such sequences, tried in order  *)
(* at the leftmost position that matches.                                  *)
(***************************************************************************)
\* str.lower(): every upper-case letter becomes its lower-case letter.
lower(text) ==
  LET upper == <<"A", "B", "C", "D", "E", "F", "G", "H", "I", "J", "K", "L", "M",
               "N", "O", "P", "Q", "R", "S", "T", "U", "V", "W", "X", "Y", "Z">>
      letters == <<"a", "b", "c", "d", "e", "f", "g", "h", "i", "j", "k", "l", "m",
                 "n", "o", "p", "q", "r", "s", "t", "u", "v", "w", "x", "y", "z">>
  IN [i \in 1 .. Len(text) |->
        IF \E j \in 1 .. Len(upper) : upper[j] = text[i]
        THEN letters[CHOOSE j \in 1 .. Len(upper) : upper[j] = text[i]]
        ELSE text[i]]

\* needle in text
contains(text, needle) ==
  \E p \in 1 .. Len(text) - Len(needle) + 1 :
    SubSeq(text, p, p + Len(needle) - 1) = needle

\* str.replace(old, "") for a one-character old.
without(text, c) == SelectSeq(text, LAMBDA x : x # c)

\* Character classes: the characters of a set, or all the others.
In(set) == [neg |-> FALSE, set |-> set]

NotIn(set) == [neg |-> TRUE, set |-> set]

DigitChars == {Digits[i] : i \in 1 .. Len(Digits)}

\* An item x{lo,hi}; group says whether it is the captured group.
Rep(class, lo, hi, group) ==
  [class |-> class, lo |-> lo, hi |-> hi, group |-> group]

\* The longest repetition an item may take: stands for "no upper limit".
Unlimited == 1000

\* A literal text as a sequence of items.
Lit(s) == [i \in 1 .. Len(s) |-> Rep(In({s[i]}), 1, 1, FALSE)]

\* How many characters of text from position pos on are in the class, at
\* most hi.
Run(text, pos, class, hi) ==
  CHOOSE n \in 0 .. hi :
    /\ \A j \in pos .. pos + n - 1 :
         j <= Len(text) /\ (text[j] \in class.set) # class.neg
    /\ \/ n = hi
       \/ pos + n > Len(text)
       \/ (text[pos + n] \in class.set) = class.neg

\* The match of items[i..] at position pos: every item takes the largest
\* number of characters with which the rest still matches (rests are the
\* matches of the rest, one for every number of characters that works).
RECURSIVE match_at(_, _, _, _)
match_at(items, i, text, pos) ==
  IF i > Len(items) THEN [ok |-> TRUE, group |-> <<>>]
  ELSE Only({
    IF rests = {} THEN [ok |-> FALSE, group |-> <<>>]
    ELSE Only({
      IF items[i].group
      THEN [ok |-> TRUE, group |-> SubSeq(text, pos, pos + longest.k - 1)]
      ELSE longest.rest
      : longest \in {CHOOSE r \in rests : \A other \in rests : other.k <= r.k}})
    : rests \in {{r \in {[k |-> k, rest |-> match_at(items, i + 1, text, pos + k)]
                           : k \in items[i].lo .. Run(text, pos, items[i].class, items[i].hi)}
                     : r.rest.ok}}})

\* re.search(pattern, text): the first alternative that matches at the
\* leftmost position where one does.
re_search(alternatives, text) ==
  Only({
    IF starts = {} THEN [ok |-> FALSE, group |-> <<>>]
    ELSE Only({
      match_at(alternatives[CHOOSE a \in 1 .. Len(alternatives) :
                              /\ match_at(alternatives[a], 1, text, pos).ok
                              /\ \A b \in 1 .. a - 1 :
                                    ~match_at(alternatives[b], 1, text, pos).ok],
               1, text, pos)
      : pos \in {CHOOSE p \in starts : \A q \in starts : p <= q}})
    : starts \in {{p \in 1 .. Len(text) + 1 :
                     \E a \in 1 .. Len(alternatives) :
                       match_at(alternatives[a], 1, text, p).ok}}})

\* (\d{2})\s*(?:years?\s*old|yo|age)
AgePattern ==
  << <<Rep(In(DigitChars), 2, 2, TRUE), Rep(In({" "}), 0, Unlimited, FALSE)>>
       \o Lit(<<"y", "e", "a", "r">>)
       \o <<Rep(In({"s"}), 0, 1, FALSE), Rep(In({" "}), 0, Unlimited, FALSE)>>
       \o Lit(<<"o", "l", "d">>),
     <<Rep(In(DigitChars), 2, 2, TRUE), Rep(In({" "}), 0, Unlimited, FALSE)>>
       \o Lit(<<"y", "o">>),
     <<Rep(In(DigitChars), 2, 2, TRUE), Rep(In({" "}), 0, Unlimited, FALSE)>>
       \o Lit(<<"a", "g", "e">>) >>

\* [^\d₹]*₹?\s*([\d,.kKlL]+)
AmountTail ==
  <<Rep(NotIn(DigitChars \cup {"₹"}), 0, Unlimited, FALSE),
    Rep(In({"₹"}), 0, 1, FALSE),
    Rep(In({" "}), 0, Unlimited, FALSE),
    Rep(In(DigitChars \cup {",", ".", "k", "K", "l", "L"}), 1, Unlimited, TRUE)>>

\* (?:income|salary|earn|make)[^\d₹]*₹?\s*([\d,.kKlL]+)
IncomePattern ==
  <<Lit(<<"i", "n", "c", "o", "m", "e">>) \o AmountTail, Lit(<<"s", "a", "l", "a", "r", "y">>) \o AmountTail,
    Lit(<<"e", "a", "r", "n">>) \o AmountTail, Lit(<<"m", "a", "k", "e">>) \o AmountTail>>

\* (?:savings|saved|have)[^\d₹]*₹?\s*([\d,.kKlL]+)
SavingsPattern ==
  <<Lit(<<"s", "a", "v", "i", "n", "g", "s">>) \o AmountTail, Lit(<<"s", "a", "v", "e", "d">>) \o AmountTail,
    Lit(<<"h", "a", "v", "e">>) \o AmountTail>>

\* retire(?:ment)?[^0-9]{0,10}(\d{2})
RetirementPattern ==
  << Lit(<<"r", "e", "t", "i", "r", "e", "m", "e", "n", "t">>)
       \o <<Rep(NotIn(DigitChars), 0, 10, FALSE), Rep(In(DigitChars), 2, 2, TRUE)>>,
     Lit(<<"r", "e", "t", "i", "r", "e">>)
       \o <<Rep(NotIn(DigitChars), 0, 10, FALSE), Rep(In(DigitChars), 2, 2, TRUE)>> >>

\* parse_amount(val): the lakh and thousand suffixes, then int(float(...)).
parse_amount(val) ==
  Only({
    Only({
      Only({IF IsRaise(x) THEN x ELSE int(FMul(x.val, FromInt(s.multiplier)))
            : x \in {float(Str(s.val))}})
      : s \in {IF \E i \in 1 .. Len(v) : v[i] = "l"
               THEN [multiplier |-> 100000, val |-> without(v, "l")]
               ELSE IF \E i \in 1 .. Len(v) : v[i] = "k"
               THEN [multiplier |-> 1000, val |-> without(v, "k")]
               ELSE [multiplier |-> 1, val |-> v]}})
    : v \in {strip(without(without(lower(val), "₹"), ","))}})

\* The five steps of _extract_financial_data.  Each takes the data found
\* so far and gives the data after the step, or "failed" with the data so
\* far when parse_amount raises: the except clause ends the extraction.
\* dict.update(other); data[key] = value is the update by {key: value}.
update(data, other) ==
  [k \in DOMAIN data \cup DOMAIN other |->
     IF k \in DOMAIN other THEN other[k] ELSE data[k]]

extract_number(data, key, pattern, text) ==
  Only({[failed |-> FALSE,
         data |-> IF m.ok
                  THEN update(data, [k \in {key} |-> Float(FromInt(NatOf(m.group)))])
                  ELSE data]
        : m \in {re_search(pattern, text)}})

extract_amount(data, key, pattern, text) ==
  Only({
    IF ~m.ok THEN [failed |-> FALSE, data |-> data]
    ELSE Only({IF IsRaise(v) THEN [failed |-> TRUE, data |-> data]
               ELSE [failed |-> FALSE,
                     data |-> update(data, [k \in {key} |-> Float(FromInt(v.val))])]
               : v \in {parse_amount(m.group)}})
    : m \in {re_search(pattern, text)}})

\* for risk in ["conservative", "moderate", "aggressive"]: the last of the
\* words that the text contains; i is the position in the list.
RECURSIVE extract_risk(_, _, _)
extract_risk(data, text, i) ==
  LET risks == <<<<"c", "o", "n", "s", "e", "r", "v", "a", "t", "i", "v", "e">>,
                 <<"m", "o", "d", "e", "r", "a", "t", "e">>,
                 <<"a", "g", "g", "r", "e", "s", "s", "i", "v", "e">>>>
  IN IF i > Len(risks) THEN data
     ELSE extract_risk(IF contains(lower(text), risks[i])
                       THEN update(data, [k \in {"risk_tolerance"} |-> Str(risks[i])])
                       ELSE data, text, i + 1)

NoData == [k \in {} |-> None]

_extract_financial_data(text) ==
  Only({
    IF income.failed THEN income.data
    ELSE Only({
      IF savings.failed THEN savings.data
      ELSE extract_risk(extract_number(savings.data, "retirement_age",
                                       RetirementPattern, lower(text)).data,
                        text, 1)
      : savings \in {extract_amount(income.data, "savings", SavingsPattern, text)}})
    : income \in {extract_amount(
                    extract_number(NoData, "age", AgePattern, lower(text)).data,
                    "income", IncomePattern, text)}})

(***************************************************************************)
(* agent.py: FinancialPlanningAgent.  user_data is a dict, modelled as a   *)
(* function from the keys present to their values; a value is None, a      *)
(* number or a text.                                                       *)
(***************************************************************************)
RequiredFields == <<"age", "income", "savings", "retirement_age">>

\* dict.get(key): None for a key that is absent.
get(data, key) == IF key \in DOMAIN data THEN data[key] ELSE None

_has_sufficient_data(data) ==
  \A i \in 1 .. Len(RequiredFields) : get(data, RequiredFields[i]) # None

\* [f for f in [...] if f not in self.user_data]
missing(data) == SelectSeq(RequiredFields, LAMBDA f : f \notin DOMAIN data)

\* reset_conversation() that leaves user_data as it is.
reset_conversation_keeping(data) == data

\* reset_conversation(): the user_data after it.
reset_conversation(data) == NoData

\* new_data["new"] = new_data.pop("old"), when "old" is a key.
rename(new_data, old, new) ==
  IF old \in DOMAIN new_data
  THEN [k \in (DOMAIN new_data \ {old}) \cup {new} |->
          IF k = new THEN new_data[old] ELSE new_data[k]]
  ELSE new_data

\* update_user_data(new_data): the user_data after it, or the ValueError.
update_user_data(data, new_data) ==
  IF new_data.kind # "dict" THEN Raise("ValueError", "Expected a dictionary.")
  ELSE Ok(update(data,
                 rename(rename(rename(new_data.items, "current_income", "income"),
                               "current_savings", "savings"),
                        "monthly_expenses", "expenses")))

\* The profile that chat writes into the prompt.
context(data, user_input) ==
  [age |-> data["age"],
   income |-> format_currency(data["income"]),
   savings |-> format_currency(data["savings"]),
   retirement_age |-> data["retirement_age"],
   risk_tolerance |-> IF "risk_tolerance" \in DOMAIN data
                      THEN data["risk_tolerance"] ELSE Str(<<"N", "o", "t", " ", "s", "p", "e", "c", "i", "f", "i", "e", "d">>),
   user_input |-> user_input]

\* chat(user_input): the user_data after the call, the contexts passed to
\* llm.invoke and the message returned; outcome is what llm.invoke does
\* if it is called: a text is returned as it is, of a dict the stripped
\* "output", and an exception becomes the error message.
chat(data, user_input, outcome) ==
  Only({
    IF contains(lower(user_input), <<"r", "e", "s", "e", "t">>)
    THEN [user_data |-> reset_conversation(merged), invoked |-> <<>>,
          returns |-> [kind |-> "reset"]]
    ELSE IF ~_has_sufficient_data(merged)
    THEN [user_data |-> merged, invoked |-> <<>>,
          returns |-> [kind |-> "missing", fields |-> missing(merged)]]
    ELSE [user_data |-> merged, invoked |-> <<context(merged, user_input)>>,
          returns |->
            IF IsRaise(outcome) THEN [kind |-> "error", text |-> outcome.msg]
            ELSE IF outcome.val.kind = "str"
            THEN [kind |-> "response", text |-> outcome.val.chars]
            ELSE [kind |-> "response",
                  text |-> strip(IF "output" \in DOMAIN outcome.val.items
                                 THEN outcome.val.items["output"].chars
                                 ELSE <<>>)]]
    : merged \in {update(data, _extract_financial_data(user_input))}})

(***************************************************************************)
(* Arguments a caller may pass.                                            *)
(***************************************************************************)
BigPeriods == 2000

TinyExp == 60

Tiny == Pow2(-TinyExp)

Amounts == {FromInt(i) : i \in -1 .. MaxAmount}

Rates == {FromInt(-2), FromInt(-1), Frac(-1, 2), Zero, Tiny, Frac(1, 2), One}

Periods == (-1 .. MaxPeriods) \cup {BigPeriods}

MortgageRates == {FromInt(-1), Zero, Tiny, FromInt(12)}

Years == -1 .. 1

InvestmentReturns == {FromInt(-2), FromInt(-1), Zero, Tiny, FromInt(12)}

Ages == {MinAge - 1, MinAge, MaxAge - 1, MaxAge, MaxAge + 1}

Incomes == {Zero, One}

SavingsRates == {Frac(-1, 2), Zero, Frac(1, 2), One, Frac(3, 2)}

Targets == {FromInt(i) : i \in 0 .. MaxAmount + 2}

ExpectedReturns == {FromInt(-2), FromInt(-1), Frac(-1, 2), Zero, Tiny, One}

BigTarget == 40

BigRateExp == 30

Payments == {Zero, Frac(1, 2), One}

SolverTargets == Targets \cup {FromInt(BigTarget)}

SolverRates == {FromInt(-2), FromInt(-1), Frac(-1, 2), Zero, Tiny, One,
                Pow2(BigRateExp)}

Withdrawals == {FromInt(-1), Zero, Frac(1, 2), One, FromInt(2)}

Horizons == -1 .. MaxPeriods

InputValues ==
  {None} \cup {Float(FromInt(i)) : i \in {-5, 0, 18, 25, 100, 150}}
         \cup {Float(NaN), Float(PInf), Float(Frac(1, 2))}
         \cup {Str(s) : s \in {<<"2", "5">>, <<"-", "5">>, <<" ", "7", " ">>,
                               <<"1", ".", "5">>, <<"a", "b", "c">>, <<>>,
                               <<"n", "a", "n">>, <<"1", ".", "2", ".", "3">>}}

\* Messages a user may send.
Messages ==
  {
    \* i am 30 years old
    <<"i", " ", "a", "m", " ", "3", "0", " ", "y", "e", "a", "r", "s", " ",
      "o", "l", "d">>,
    \* my salary is ₹75,000 and i have 2l
    <<"m", "y", " ", "s", "a", "l", "a", "r", "y", " ", "i", "s", " ", "₹",
      "7", "5", ",", "0", "0", "0", " ", "a", "n", "d", " ", "i", " ", "h",
      "a", "v", "e", " ", "2", "l">>,
    \* i have saved 2.5l, retire at 60
    <<"i", " ", "h", "a", "v", "e", " ", "s", "a", "v", "e", "d", " ", "2",
      ".", "5", "l", ",", " ", "r", "e", "t", "i", "r", "e", " ", "a", "t",
      " ", "6", "0">>,
    \* 45 yo, income ok, aggressive
    <<"4", "5", " ", "y", "o", ",", " ", "i", "n", "c", "o", "m", "e", " ",
      "o", "k", ",", " ", "a", "g", "g", "r", "e", "s", "s", "i", "v", "e">>,
    \* Income 9k? i earn 75k, moderate
    <<"I", "n", "c", "o", "m", "e", " ", "9", "k", "?", " ", "i", " ", "e",
      "a", "r", "n", " ", "7", "5", "k", ",", " ", "m", "o", "d", "e", "r",
      "a", "t", "e">>,
    \* please RESET, i am 30 yo and retire at 60
    <<"p", "l", "e", "a", "s", "e", " ", "R", "E", "S", "E", "T", ",", " ",
      "i", " ", "a", "m", " ", "3", "0", " ", "y", "o", " ", "a", "n", "d",
      " ", "r", "e", "t", "i", "r", "e", " ", "a", "t", " ", "6", "0">>,
    \* reset
    <<"r", "e", "s", "e", "t">>,
    \* when can i retire?
    <<"w", "h", "e", "n", " ", "c", "a", "n", " ", "i", " ", "r", "e", "t",
      "i", "r", "e", "?">>
  }

Dict(items) == [kind |-> "dict", items |-> items]

\* What llm.invoke may do: return a text, return a dict with an "output",
\* return a dict without one, or raise.
LLMOutcomes ==
  { Ok(Str(<<"s", "a", "v", "e", " ", "m", "o", "r", "e">>)),
    Ok(Dict([k \in {"output"} |-> Str(<<" ", "s", "a", "v", "e", " ", "m", "o", "r", "e", " ">>)])),
    Ok(Dict(NoData)),
    Raise("ConnectionError", "connection refused") }

\* Arguments of update_user_data: the questionnaire of ui.py, a
\* questionnaire with an answer left open, an expense, and a value that is
\* not a dict.
NewData ==
  { Dict([k \in {"age", "current_income", "current_savings", "retirement_age"} |->
            CASE k = "age" -> Float(FromInt(30))
              [] k = "current_income" -> Float(FromInt(75000))
              [] k = "current_savings" -> Float(FromInt(200000))
              [] k = "retirement_age" -> Float(FromInt(60))]),
    Dict([k \in {"age"} |-> None]),
    Dict([k \in {"monthly_expenses", "income"} |->
            IF k = "income" THEN None ELSE Float(FromInt(20000))]),
    Str(<<"a", "g", "e">>) }

Primitives == {"future_value", "present_value", "future_value_annuity",
               "present_value_annuity", "payment_for_future_value",
               "payment_for_present_value"}

(***************************************************************************)
(* The state machine.  The engine keeps nothing between calls: a call is   *)
(* made from the idle state, the state then shows the call and its         *)
(* outcome, and the caller takes the outcome and is idle again.            *)
(***************************************************************************)
NoArgs == [amount |-> Zero, rate |-> Zero, periods |-> 0]

\* The threads that call the engine.
Callers == {1, 2}

Idle == fn = "none"

Init ==
  /\ fn = "none"
  /\ args = NoArgs
  /\ res = [tag |-> "none"]
  /\ user_data = NoData
  /\ invoked = <<>>
  /\ calls = [c \in Callers |-> [fn |-> "none", res |-> [tag |-> "none"]]]

Return ==
  /\ ~Idle
  /\ fn' = "none"
  /\ args' = NoArgs
  /\ res' = [tag |-> "none"]
  /\ invoked' = <<>>
  /\ UNCHANGED <<user_data, calls>>

FutureValue ==
  /\ Idle
  /\ \E a \in Amounts, r \in Rates, k \in Periods :
       /\ fn' = "future_value"
       /\ args' = [amount |-> a, rate |-> r, periods |-> k]
       /\ res' = future_value(a, r, k)
  /\ UNCHANGED <<user_data, invoked, calls>>

PresentValue ==
  /\ Idle
  /\ \E a \in Amounts, r \in Rates, k \in Periods :
       /\ fn' = "present_value"
       /\ args' = [amount |-> a, rate |-> r, periods |-> k]
       /\ res' = present_value(a, r, k)
  /\ UNCHANGED <<user_data, invoked, calls>>

FutureValueAnnuity ==
  /\ Idle
  /\ \E a \in Amounts, r \in Rates, k \in Periods :
       /\ fn' = "future_value_annuity"
       /\ args' = [amount |-> a, rate |-> r, periods |-> k]
       /\ res' = future_value_annuity(a, r, k)
  /\ UNCHANGED <<user_data, invoked, calls>>

PresentValueAnnuity ==
  /\ Idle
  /\ \E a \in Amounts, r \in Rates, k \in Periods :
       /\ fn' = "present_value_annuity"
       /\ args' = [amount |-> a, rate |-> r, periods |-> k]
       /\ res' = present_value_annuity(a, r, k)
  /\ UNCHANGED <<user_data, invoked, calls>>

PaymentForFutureValue ==
  /\ Idle
  /\ \E a \in Amounts, r \in Rates, k \in Periods :
       /\ fn' = "payment_for_future_value"
       /\ args' = [amount |-> a, rate |-> r, periods |-> k]
       /\ res' = payment_for_future_value(a, r, k)
  /\ UNCHANGED <<user_data, invoked, calls>>

PaymentForPresentValue ==
  /\ Idle
  /\ \E a \in Amounts, r \in Rates, k \in Periods :
       /\ fn' = "payment_for_present_value"
       /\ args' = [amount |-> a, rate |-> r, periods |-> k]
       /\ res' = payment_for_present_value(a, r, k)
  /\ UNCHANGED <<user_data, invoked, calls>>

\* test_present_value_consistency: a future value discounted back.
present_value_consistency(pv, rate, periods) ==
  Only({IF IsRaise(fv) THEN fv
        ELSE present_value(fv.val, rate, periods)
        : fv \in {future_value(pv, rate, periods)}})

PresentValueConsistency ==
  /\ Idle
  /\ \E a \in Amounts, r \in Rates, k \in Periods :
       /\ fn' = "present_value_consistency"
       /\ args' = [amount |-> a, rate |-> r, periods |-> k]
       /\ res' = present_value_consistency(a, r, k)
  /\ UNCHANGED <<user_data, invoked, calls>>

MortgageVsInvestAnalysis ==
  /\ Idle
  /\ \E b \in Amounts, mr \in MortgageRates, y \in Years, ir \in InvestmentReturns :
       /\ fn' = "mortgage_vs_invest_analysis"
       /\ args' = [mortgage_balance |-> b, mortgage_rate |-> mr,
                   mortgage_years |-> y, investment_return |-> ir]
       /\ res' = mortgage_vs_invest_analysis(b, mr, y, ir)
  /\ UNCHANGED <<user_data, invoked, calls>>

RetirementAgeCalculator ==
  /\ Idle
  /\ \E a \in Ages, s \in Amounts, i \in Incomes, sr \in SavingsRates,
        t \in Targets, r \in ExpectedReturns :
       /\ fn' = "retirement_age_calculator"
       /\ args' = [current_age |-> a, current_savings |-> s,
                   current_income |-> i, savings_rate |-> sr,
                   target_nest_egg |-> t, expected_return |-> r]
       /\ res' = retirement_age_calculator(a, s, i, sr, t, r)
  /\ UNCHANGED <<user_data, invoked, calls>>

SolveForPeriods ==
  /\ Idle
  /\ \E pv \in Amounts, pmt \in Payments, t \in SolverTargets, r \in SolverRates :
       /\ fn' = "_solve_for_periods"
       /\ args' = [present_value |-> pv, payment |-> pmt, future_value |-> t,
                   rate |-> r]
       /\ res' = _solve_for_periods(pv, pmt, t, r)
  /\ UNCHANGED <<user_data, invoked, calls>>

SavingsDurationCalculator ==
  /\ Idle
  /\ \E s \in Amounts, w \in Withdrawals, r \in Rates :
       /\ fn' = "savings_duration_calculator"
       /\ args' = [current_savings |-> s, withdrawal_rate |-> w,
                   annual_return |-> r]
       /\ res' = savings_duration_calculator(s, w, r)
  /\ UNCHANGED <<user_data, invoked, calls>>

GoalBasedSavingsCalculator ==
  /\ Idle
  /\ \E t \in Targets, h \in Horizons, s \in Amounts, r \in ExpectedReturns :
       /\ fn' = "goal_based_savings_calculator"
       /\ args' = [target_amount |-> t, time_horizon |-> h,
                   current_savings |-> s, expected_return |-> r]
       /\ res' = goal_based_savings_calculator(t, h, s, r)
  /\ UNCHANGED <<user_data, invoked, calls>>

CalculateRuleOf72 ==
  /\ Idle
  /\ \E r \in Rates :
       /\ fn' = "calculate_rule_of_72"
       /\ args' = [interest_rate |-> r]
       /\ res' = calculate_rule_of_72(r)
  /\ UNCHANGED <<user_data, invoked, calls>>

InflationAdjustedReturn ==
  /\ Idle
  /\ \E n \in Rates, i \in Rates :
       /\ fn' = "inflation_adjusted_return"
       /\ args' = [nominal_return |-> n, inflation_rate |-> i]
       /\ res' = inflation_adjusted_return(n, i)
  /\ UNCHANGED <<user_data, invoked, calls>>

ValidateFinancialInput ==
  /\ Idle
  /\ \E v \in InputValues, f \in {"age", "income", "Savings"},
        lo \in {None, Float(Zero), Float(FromInt(18))},
        hi \in {None, Float(FromInt(100)), Float(FromInt(250000)),
                Float(FromInt(10000000))} :
       /\ fn' = "validate_financial_input"
       /\ args' = [value |-> v, field_name |-> f, min_value |-> lo,
                   max_value |-> hi]
       /\ res' = Ok(validate_financial_input(v, f, lo, hi))
  /\ UNCHANGED <<user_data, invoked, calls>>

Next ==
  \/ ValidateFinancialInput
  \/ InflationAdjustedReturn
  \/ CalculateRuleOf72
  \/ GoalBasedSavingsCalculator
  \/ SavingsDurationCalculator
  \/ SolveForPeriods
  \/ RetirementAgeCalculator
  \/ MortgageVsInvestAnalysis
  \/ PresentValueConsistency
  \/ FutureValue
  \/ PresentValue
  \/ FutureValueAnnuity
  \/ PresentValueAnnuity
  \/ PaymentForFutureValue
  \/ PaymentForPresentValue
  \/ Return

Spec == Init /\ [][Next]_vars

(***************************************************************************)
(* The solver's loop as a process: a call enters the loop, every step is   *)
(* one iteration, and the call returns when the loop does.                 *)
(***************************************************************************)
InLoop == fn = "_solve_for_periods" /\ res.tag = "loop"

SolverEnter ==
  /\ Idle
  /\ \E pv \in {Zero, One}, pmt \in Payments, t \in SolverTargets,
        r \in {Frac(-1, 2), Zero, One} :
       /\ fn' = "_solve_for_periods"
       /\ args' = [present_value |-> pv, payment |-> pmt, future_value |-> t,
                   rate |-> r]
       /\ res' = Loop(Zero, FromInt(SearchHigh), 0)
  /\ UNCHANGED <<user_data, invoked, calls>>

SolverIterate ==
  /\ InLoop
  /\ res' = iteration([present_value |-> args.present_value,
                       payment |-> args.payment,
                       future_value |-> args.future_value,
                       rate |-> args.rate, tolerance |-> Tolerance], res)
  /\ UNCHANGED <<fn, args>>
  /\ UNCHANGED <<user_data, invoked, calls>>

SolverReturn ==
  /\ ~Idle /\ ~InLoop
  /\ fn' = "none"
  /\ args' = NoArgs
  /\ res' = [tag |-> "none"]
  /\ invoked' = <<>>
  /\ UNCHANGED <<user_data, calls>>

SolverNext ==
  \/ SolverEnter
  \/ SolverIterate
  \/ SolverReturn

SolverSpec == Init /\ [][SolverNext]_vars

(***************************************************************************)
(* The agent as a process: one call of the agent at a time.                *)
(***************************************************************************)
Chat ==
  /\ Idle
  /\ \E text \in Messages, outcome \in LLMOutcomes :
       /\ fn' = "chat"
       /\ args' = [user_input |-> text]
       /\ \E after \in {chat(user_data, text, outcome)} :
            /\ user_data' = after.user_data
            /\ invoked' = after.invoked
            /\ res' = Ok(after.returns)
  /\ UNCHANGED calls

UpdateUserData ==
  /\ Idle
  /\ \E d \in NewData :
       /\ fn' = "update_user_data"
       /\ args' = [new_data |-> d]
       /\ \E after \in {update_user_data(user_data, d)} :
            /\ user_data' = IF IsRaise(after) THEN user_data ELSE after.val
            /\ res' = IF IsRaise(after) THEN after ELSE Ok(None)
       /\ UNCHANGED <<invoked, calls>>

ResetConversation ==
  /\ Idle
  /\ fn' = "reset_conversation"
  /\ args' = NoArgs
  /\ user_data' = reset_conversation(user_data)
  /\ res' = Ok(None)
  /\ UNCHANGED <<invoked, calls>>

HasSufficientData ==
  /\ Idle
  /\ fn' = "_has_sufficient_data"
  /\ args' = NoArgs
  /\ res' = Ok(_has_sufficient_data(user_data))
  /\ UNCHANGED <<user_data, invoked, calls>>

AgentNext ==
  \/ Chat
  \/ UpdateUserData
  \/ ResetConversation
  \/ HasSufficientData
  \/ Return

AgentSpec == Init /\ [][AgentNext]_vars

(***************************************************************************)
(* The engine under concurrent callers: each caller enters a function of   *)
(* the one FinancialFormulas object with its arguments, the function runs  *)
(* while the other caller's may, and the caller leaves with the result.    *)
(* The object has no attributes (__init__ is "pass") and the functions     *)
(* use their parameters and locals only.                                   *)
(***************************************************************************)
EngineCalls ==
  {[fn |-> "calculate_rule_of_72", args |-> [interest_rate |-> r]] : r \in Rates}
  \cup {[fn |-> "inflation_adjusted_return",
         args |-> [nominal_return |-> n, inflation_rate |-> i]]
        : n \in Rates, i \in Rates}

Returned(c) == calls[c].res.tag \in {"ok", "raise"}

Enter(c) ==
  /\ calls[c].fn = "none"
  /\ \E call \in EngineCalls :
       calls' = [calls EXCEPT ![c] = [fn |-> call.fn, args |-> call.args,
                                      res |-> [tag |-> "running"]]]
  /\ UNCHANGED <<fn, args, res, user_data, invoked>>

Finish(c) ==
  /\ calls[c].res.tag = "running"
  /\ calls' = [calls EXCEPT ![c].res =
                 IF calls[c].fn = "calculate_rule_of_72"
                 THEN calculate_rule_of_72(calls[c].args.interest_rate)
                 ELSE inflation_adjusted_return(calls[c].args.nominal_return,
                                                calls[c].args.inflation_rate)]
  /\ UNCHANGED <<fn, args, res, user_data, invoked>>

Leave(c) ==
  /\ Returned(c)
  /\ calls' = [calls EXCEPT ![c] = [fn |-> "none", res |-> [tag |-> "none"]]]
  /\ UNCHANGED <<fn, args, res, user_data, invoked>>

ConcurrentNext ==
  \/ \E c \in Callers : Enter(c)
  \/ \E c \in Callers : Finish(c)
  \/ \E c \in Callers : Leave(c)

ConcurrentSpec == Init /\ [][ConcurrentNext]_vars


(***************************************************************************)
(* The invalid-input error: a ValueError raised by a guard of the engine.  *)
(***************************************************************************)
ParamNamed(msg) ==
  CASE msg = "Present value cannot be negative" -> "present_value"
    [] msg = "Future value cannot be negative" -> "future_value"
    [] msg = "Payment cannot be negative" -> "payment"
    [] msg = "Number of periods cannot be negative" -> "periods"
    [] msg = "Number of periods must be positive" -> "periods"
    [] msg = "Interest rate cannot be less than -100%" -> "rate"
    [] msg = "Discount rate cannot be less than -100%" -> "rate"
    [] msg = "Mortgage balance must be positive" -> "mortgage_balance"
    [] msg = "Mortgage rate cannot be negative" -> "mortgage_rate"
    [] msg = "Mortgage years must be positive" -> "mortgage_years"
    [] msg = "Investment return cannot be less than -100%" -> "investment_return"
    [] msg = "Current age must be between 18 and 100" -> "current_age"
    [] msg = "Current savings cannot be negative" -> "current_savings"
    [] msg = "Current income must be positive" -> "current_income"
    [] msg = "Savings rate must be between 0 and 1" -> "savings_rate"
    [] msg = "Target nest egg must be positive" -> "target_nest_egg"
    [] msg = "Expected return cannot be less than -100%" -> "expected_return"
    [] msg = "Current savings must be positive" -> "current_savings"
    [] msg = "Interest rate must be positive" -> "interest_rate"
    [] msg = "Target amount must be positive" -> "target_amount"
    [] msg = "Time horizon must be positive" -> "time_horizon"
    [] msg = "Withdrawal rate must be positive" -> "withdrawal_rate"
    [] msg = "Annual return cannot be less than -100%" -> "annual_return"
    [] OTHER -> "none"

InvalidInput(r) ==
  IsRaise(r) /\ r.exc = "ValueError" /\ ParamNamed(r.msg) # "none"

\* The name of the amount parameter of each primitive.
AmountParam(f) ==
  CASE f \in {"future_value", "payment_for_present_value"} -> "present_value"
    [] f \in {"present_value", "payment_for_future_value"} -> "future_value"
    [] OTHER -> "payment"

PaymentFns == {"payment_for_future_value", "payment_for_present_value"}

AnnuityFns == {"future_value_annuity", "present_value_annuity"}

MinusOne == FromInt(-1)

(***************************************************************************)
(* C1.  Each of the six primitives rejects every rate <= -1, a rate of     *)
(* exactly -1 included, with the invalid-input error.                      *)
(***************************************************************************)
C1_RateAtMostMinusOneRejected ==
  (fn \in Primitives /\ FLe(args.rate, MinusOne)) => InvalidInput(res)

(***************************************************************************)
(* C2.  A negative amount and a negative period count are rejected with    *)
(* an invalid-input error naming the parameter; the two payment            *)
(* primitives also reject periods = 0 and the other four accept it; the    *)
(* amount is reported before the periods, the periods before the rate.     *)
(***************************************************************************)
C2_GuardsNameParameterInOrder ==
  fn \in Primitives =>
    LET badAmount == FLt(args.amount, Zero)
        badPeriods == args.periods < 0 \/ (fn \in PaymentFns /\ args.periods = 0)
    IN /\ badAmount => (InvalidInput(res) /\ ParamNamed(res.msg) = AmountParam(fn))
       /\ (~badAmount /\ badPeriods) =>
            (InvalidInput(res) /\ ParamNamed(res.msg) = "periods")
       /\ (InvalidInput(res) /\ ParamNamed(res.msg) = "rate") =>
            (~badAmount /\ ~badPeriods)
       /\ (fn \notin PaymentFns /\ ~badAmount /\ args.periods = 0
             /\ FLt(MinusOne, args.rate)) => IsOk(res)

C2_Witness ==
  /\ fn = "future_value"
  /\ FLt(args.amount, Zero) /\ args.periods < 0 /\ FLt(args.rate, MinusOne)
  /\ InvalidInput(res) /\ ParamNamed(res.msg) = "present_value"

(***************************************************************************)
(* C3.  Round trip: for every pv >= 0, rate > -1 and n >= 0,               *)
(* present_value(future_value(pv, rate, n), rate, n) equals pv.            *)
(***************************************************************************)
RoundTripCase ==
  /\ fn = "present_value_consistency"
  /\ FLe(Zero, args.amount) /\ FLt(MinusOne, args.rate) /\ args.periods >= 0

WithinFloatRange(pv, rate, periods) ==
  LET p == math_pow(FAdd(One, rate), periods)
  IN /\ IsOk(p) /\ ~IsZero(p.val)
     /\ IsFinite(FMul(pv, p.val))
     /\ (IsZero(FMul(pv, p.val)) => IsZero(pv))

C4_PaymentInvertsAnnuity ==
  (/\ fn = "payment_for_future_value"
   /\ FLe(Zero, args.amount) /\ FLe(MinusOne, args.rate) /\ args.periods > 0)
    => /\ IsOk(res)
       /\ LET back == future_value_annuity(res.val, args.rate, args.periods)
          IN IsOk(back) /\ FEq(back.val, args.amount)

(***************************************************************************)
(* C5.  At rate = 0 the annuity and payment primitives take the explicit   *)
(* branch and never divide by the rate: the two annuity values are exactly *)
(* payment x periods, the two payments exactly amount / periods.           *)
(***************************************************************************)
ZeroRateCase ==
  /\ fn \in AnnuityFns \cup PaymentFns
  /\ FEq(args.rate, Zero) /\ FLe(Zero, args.amount)
  /\ IF fn \in PaymentFns THEN args.periods > 0 ELSE args.periods >= 0

C5_ZeroRateLinear ==
  ZeroRateCase =>
    /\ IsOk(res)
    /\ fn \in AnnuityFns =>
         res.val = Norm(args.amount.n * args.periods, args.amount.d, args.amount.e)
    /\ fn \in PaymentFns =>
         res.val = Norm(args.amount.n, args.amount.d * args.periods, args.amount.e)

C5_Witness ==
  /\ ZeroRateCase
  /\ fn = "present_value_annuity" /\ args.amount = FromInt(2) /\ args.periods = 3
  /\ res = Ok(FromInt(6))


(***************************************************************************)
(* C6.  In every record mortgage_vs_invest_analysis returns, net_benefit   *)
(* is investment_value minus interest_saved and the recommendation is      *)
(* "invest" exactly when net_benefit > 0; a zero or negative net_benefit   *)
(* (ties included) gives the pay-down option.                              *)
(***************************************************************************)
MortgageReturned == fn = "mortgage_vs_invest_analysis" /\ IsOk(res)

C6_RecommendationFollowsNetBenefit ==
  MortgageReturned =>
    /\ res.val.net_benefit = FSub(res.val.investment_value, res.val.interest_saved)
    /\ (res.val.recommendation = "invest") <=> FLt(Zero, res.val.net_benefit)
    /\ FLe(res.val.net_benefit, Zero) => res.val.recommendation = "pay_mortgage"

\* A tie: the net benefit is exactly zero.
C6_Witness ==
  /\ MortgageReturned
  /\ IsZero(res.val.net_benefit)
  /\ res.val.recommendation = "pay_mortgage"

(***************************************************************************)
(* C7.  The recommendation of every returned record is one of exactly two  *)
(* values, "invest" or "pay_down_debt".                                    *)
(***************************************************************************)
C7_InvestOrPayDownDebt ==
  MortgageReturned => res.val.recommendation \in {"invest", "pay_down_debt"}

\* C7 as amended: the two values are "invest" and "pay_mortgage", and a
\* mortgage rate above the investment return with a negative net benefit
\* gives "pay_mortgage".
C7_InvestOrPayMortgage ==
  MortgageReturned =>
    /\ res.val.recommendation \in {"invest", "pay_mortgage"}
    /\ FLt(res.val.net_benefit, Zero) => res.val.recommendation = "pay_mortgage"

C7_Witness ==
  /\ MortgageReturned
  /\ FLt(args.investment_return, args.mortgage_rate)
  /\ FLt(res.val.net_benefit, Zero)
  /\ res.val.recommendation = "pay_mortgage"

(***************************************************************************)
(* C8.  With balance, mortgage rate and term fixed, raising                *)
(* investment_return never flips the recommendation from "invest" to the   *)
(* pay-down option: net_benefit is non-decreasing in investment_return.    *)
(***************************************************************************)
C8_RaisingReturnNeverFlips ==
  MortgageReturned =>
    \A ir \in InvestmentReturns :
      LET higher == mortgage_vs_invest_analysis(args.mortgage_balance,
                      args.mortgage_rate, args.mortgage_years, ir)
      IN (FLe(args.investment_return, ir) /\ IsOk(higher)) =>
           /\ FLe(res.val.net_benefit, higher.val.net_benefit)
           /\ res.val.recommendation = "invest" =>
                higher.val.recommendation = "invest"

(***************************************************************************)
(* C9.  mortgage_vs_invest_analysis rejects with an invalid-input error    *)
(* every call with balance <= 0, mortgage rate < 0, term <= 0 or           *)
(* investment return <= -1, a return of exactly -1 included.               *)
(***************************************************************************)
C9_MortgageGuards ==
  (/\ fn = "mortgage_vs_invest_analysis"
   /\ \/ FLe(args.mortgage_balance, Zero)
      \/ FLt(args.mortgage_rate, Zero)
      \/ args.mortgage_years <= 0
      \/ FLe(args.investment_return, MinusOne))
    => InvalidInput(res)

(***************************************************************************)
(* C10.  retirement_age_calculator rejects, with an invalid-input error    *)
(* identifying the argument, every call with age outside [18,100],         *)
(* savings < 0, income <= 0, savings rate outside [0,1], target <= 0 or    *)
(* expected return <= -1, a return of exactly -1 included.                 *)
(***************************************************************************)
\* The arguments of a retirement call that are out of range.
RetirementOutOfRange ==
  {q \in {"current_age", "current_savings", "current_income", "savings_rate",
          "target_nest_egg", "expected_return"} :
     \/ q = "current_age" /\ (args.current_age < 18 \/ args.current_age > 100)
     \/ q = "current_savings" /\ FLt(args.current_savings, Zero)
     \/ q = "current_income" /\ FLe(args.current_income, Zero)
     \/ q = "savings_rate"
          /\ (FLt(args.savings_rate, Zero) \/ FLt(One, args.savings_rate))
     \/ q = "target_nest_egg" /\ FLe(args.target_nest_egg, Zero)
     \/ q = "expected_return" /\ FLe(args.expected_return, MinusOne)}

C10_RetirementGuards ==
  (fn = "retirement_age_calculator" /\ RetirementOutOfRange # {})
    => (InvalidInput(res) /\ ParamNamed(res.msg) \in RetirementOutOfRange)

(***************************************************************************)
(* C11.  With a zero annual contribution and zero savings,                 *)
(* retirement_age_calculator returns the "never" outcome, float('inf'):    *)
(* it is no numeric age, no other call returns it, and it is not capped    *)
(* at 100.                                                                 *)
(***************************************************************************)
\* A retirement call that passed the guards.
RetirementAccepted == fn = "retirement_age_calculator" /\ ~InvalidInput(res)

\* No contribution and no savings.
NothingToGrow ==
  /\ FEq(FMul(args.current_income, args.savings_rate), Zero)
  /\ FEq(args.current_savings, Zero)

C11_NeverIsNoAge ==
  RetirementAccepted =>
    /\ NothingToGrow => (res = Ok(PInf) /\ FLt(FromInt(MaxAge), res.val))
    /\ (~NothingToGrow /\ IsOk(res)) => IsFinite(res.val)

C11_Witness ==
  /\ RetirementAccepted /\ NothingToGrow
  /\ args.current_age = MaxAge - 1 /\ args.expected_return = One
  /\ res = Ok(PInf)

(***************************************************************************)
(* C12.  Every numeric age retirement_age_calculator returns is            *)
(* min(current_age + ceiling(years_needed), 100), and so never above 100.  *)
(***************************************************************************)
\* A retirement call that returned an age.
AgeReturned == RetirementAccepted /\ IsOk(res) /\ IsFinite(res.val)

\* years_needed of the call in the state.
YearsOfCall ==
  years_needed(args.current_savings,
               FMul(args.current_income, args.savings_rate),
               args.target_nest_egg, args.expected_return)

C12_CeilingCappedAt100 ==
  AgeReturned =>
    /\ IsOk(YearsOfCall)
    /\ res.val = FromInt(Min(args.current_age + math_ceil(YearsOfCall.val).val,
                             MaxAge))
    /\ FLe(res.val, FromInt(MaxAge))

\* The cap applies: two years are needed from age 99.
C12_Witness ==
  /\ AgeReturned
  /\ args.current_age = MaxAge - 1
  /\ math_ceil(YearsOfCall.val).val >= 2
  /\ res = Ok(FromInt(MaxAge))

(***************************************************************************)
(* C13.  With the other arguments fixed, the result of                     *)
(* retirement_age_calculator is non-decreasing in target_nest_egg and      *)
(* non-increasing in savings_rate, over all valid inputs.                  *)
(***************************************************************************)
\* The call of the state with another target, and with another savings rate.
WithTarget(t) ==
  retirement_age_calculator(args.current_age, args.current_savings, args.current_income, args.savings_rate, t, args.expected_return)

WithSavingsRate(sr) ==
  retirement_age_calculator(args.current_age, args.current_savings, args.current_income, sr, args.target_nest_egg, args.expected_return)

C13_Monotone ==
  (RetirementAccepted /\ IsOk(res)) =>
    /\ \A t \in Targets :
         Only({(FLe(args.target_nest_egg, t) /\ IsOk(o)) => FLe(res.val, o.val)
               : o \in {WithTarget(t)}})
    /\ \A sr \in SavingsRates :
         Only({(FLe(args.savings_rate, sr) /\ IsOk(o)) => FLe(o.val, res.val)
               : o \in {WithSavingsRate(sr)}})

(***************************************************************************)
(* C14.  _solve_for_periods always terminates with a value: for every      *)
(* input it returns, on the first iteration within the tolerance or with   *)
(* the midpoint of the final bracket, and never ends in an error.          *)
(***************************************************************************)
\* The inputs the solver is meant for: amounts >= 0 and rate > -1.
SolverDomain ==
  /\ fn = "_solve_for_periods"
  /\ FLe(Zero, args.present_value) /\ FLe(Zero, args.payment)
  /\ FLt(MinusOne, args.rate)

C14_SolverAlwaysReturns ==
  SolverDomain =>
    /\ IsOk(res)
    /\ FLe(Zero, res.val) /\ FLe(res.val, FromInt(SearchHigh))


(***************************************************************************)
(* C15.  Solver precision: whenever the combined future value is           *)
(* non-decreasing in the number of periods and first reaches the target    *)
(* at a whole period N with 0 <= N <= 100, the value _solve_for_periods    *)
(* returns differs from N by at most 1 period.                             *)
(***************************************************************************)
\* The solver's objective of the call, at every whole period of the
\* search range.
ObjectiveTable ==
  [n \in 0 .. SearchHigh |->
     calculated_fv(args.present_value, args.payment, args.rate, n)]

\* The objective t is computed everywhere and never decreases.
NonDecreasing(t) ==
  /\ \A n \in DOMAIN t : IsOk(t[n]) /\ IsFinite(t[n].val)
  /\ \A n \in DOMAIN t : (n + 1) \in DOMAIN t => FLe(t[n].val, t[n + 1].val)

\* The whole periods at which the objective t is at or above the target.
Reached(t, target) == {n \in DOMAIN t : FLe(target, t[n].val)}

\* The least element of a non-empty set of naturals.
Least(S) == CHOOSE n \in S : \A m \in S : n <= m

C15_SolverWithinOnePeriod ==
  (fn = "_solve_for_periods" /\ IsFinite(args.future_value)) =>
    Only({(NonDecreasing(t) /\ Reached(t, args.future_value) # {}) =>
            /\ IsOk(res)
            /\ FLe(FAbs(FSub(res.val, FromInt(Least(Reached(t, args.future_value))))), One)
          : t \in {ObjectiveTable}})

(***************************************************************************)
(* C16.  For every present value >= 0, payment >= 0 and rate > -1, the     *)
(* solver's objective n -> future_value(pv, rate, n) +                     *)
(* future_value_annuity(payment, rate, n) never decreases as the number    *)
(* of periods n grows.                                                     *)
(***************************************************************************)
C16_ObjectiveNonDecreasing ==
  SolverDomain =>
    Only({\A n \in DOMAIN t :
            ((n + 1) \in DOMAIN t /\ IsOk(t[n]) /\ IsOk(t[n + 1])) =>
              FLe(t[n].val, t[n + 1].val)
          : t \in {ObjectiveTable}})

(***************************************************************************)
(* C17.  savings_duration_calculator returns the "indefinite" sentinel     *)
(* float('inf') exactly when withdrawal <= savings x annual_return; for    *)
(* every other valid input it returns a finite positive number of years    *)
(* (savings / withdrawal when the return is zero), and the argument        *)
(* 1 - savings x rate / withdrawal of the logarithm is strictly positive   *)
(* whenever the logarithm is evaluated.                                    *)
(***************************************************************************)
SavingsDurationAccepted ==
  fn = "savings_duration_calculator" /\ ~InvalidInput(res)

\* The return on the savings covers the withdrawal.
ReturnCoversWithdrawal ==
  FLe(args.withdrawal_rate, FMul(args.current_savings, args.annual_return))

RatioOfCall ==
  ratio(args.current_savings, args.withdrawal_rate, args.annual_return).val

\* The call gets as far as the logarithms.
LogEvaluated ==
  /\ SavingsDurationAccepted /\ ~ReturnCoversWithdrawal
  /\ ~FEq(args.annual_return, Zero) /\ FLt(RatioOfCall, One)

C17_SavingsDuration ==
  SavingsDurationAccepted =>
    /\ (res = Ok(PInf)) <=> ReturnCoversWithdrawal
    /\ ~ReturnCoversWithdrawal =>
         /\ IsOk(res) /\ IsFinite(res.val) /\ FLt(Zero, res.val)
         /\ FEq(args.annual_return, Zero) =>
              res = FDiv(args.current_savings, args.withdrawal_rate)
    /\ LogEvaluated => FLt(Zero, FSub(One, RatioOfCall))

(***************************************************************************)
(* C18.  goal_based_savings_calculator returns 0, not an error, exactly    *)
(* when the current savings grown over the horizon at the expected return  *)
(* meet or exceed the target; otherwise it returns a strictly positive     *)
(* amount equal to payment_for_future_value(target - grown savings, rate,  *)
(* horizon) divided by 12.                                                 *)
(***************************************************************************)
GoalAccepted ==
  fn = "goal_based_savings_calculator" /\ ~InvalidInput(res)

\* The current savings of the call grown over its horizon.
GrownSavings ==
  future_value(args.current_savings, args.expected_return, args.time_horizon)

C18_GoalBasedSavings ==
  GoalAccepted =>
    Only({
      /\ IsOk(grown)
      /\ (res = Ok(Zero)) <=> FLe(args.target_amount, grown.val)
      /\ ~FLe(args.target_amount, grown.val) =>
           /\ IsOk(res) /\ FLt(Zero, res.val)
           /\ Only({IsOk(p) /\ res = FDiv(p.val, FromInt(12))
                    : p \in {payment_for_future_value(
                               FSub(args.target_amount, grown.val),
                               args.expected_return, args.time_horizon)}})
      : grown \in {GrownSavings}})

(***************************************************************************)
(* C19.  inflation_adjusted_return(nominal, inflation) returns             *)
(* (1 + nominal) / (1 + inflation) - 1, so for inflation > -1 its sign     *)
(* equals the sign of nominal - inflation: zero when the two are equal,    *)
(* negative when nominal < inflation, positive when nominal > inflation.   *)
(***************************************************************************)
InflationAbove ==
  fn = "inflation_adjusted_return" /\ FLt(MinusOne, args.inflation_rate)

\* As stated: the sign of the result is the sign of nominal - inflation.
C19_SignOfDifference ==
  InflationAbove =>
    /\ IsOk(res)
    /\ Cmp(res.val, Zero) = Cmp(args.nominal_return, args.inflation_rate)

\* C19 as the code has it: the sign of the result is the sign of the
\* difference of the two float sums 1 + nominal and 1 + inflation.  It
\* never contradicts the sign of nominal - inflation, and it is zero for
\* unequal arguments whose sums round to the same float.
C19_SignOfRoundedDifference ==
  InflationAbove =>
    /\ IsOk(res)
    /\ Cmp(res.val, Zero) = Cmp(FAdd(One, args.nominal_return),
                                FAdd(One, args.inflation_rate))
    /\ Cmp(res.val, Zero) * Cmp(args.nominal_return, args.inflation_rate) >= 0
    /\ FEq(args.nominal_return, args.inflation_rate) => IsZero(res.val)

C19_Witness ==
  /\ InflationAbove
  /\ FLt(args.nominal_return, args.inflation_rate)
  /\ IsOk(res) /\ FLt(res.val, Zero)

(***************************************************************************)
(* C20.  Every exposed engine function validates its arguments before      *)
(* computing and, for any argument outside its domain, fails with the      *)
(* invalid-input error rather than with an arithmetic failure; this        *)
(* includes inflation_adjusted_return called with inflation = -1 and       *)
(* calculate_rule_of_72 called with rate <= 0.                             *)
(***************************************************************************)
\* The call has an argument outside the domain of its function.
OutsideDomain ==
  \/ fn = "calculate_rule_of_72" /\ FLe(args.interest_rate, Zero)
  \/ fn = "inflation_adjusted_return" /\ FEq(args.inflation_rate, MinusOne)

C20_OutsideDomainIsInvalidInput ==
  OutsideDomain => InvalidInput(res)

(***************************************************************************)
(* C24.  In mortgage_vs_invest_analysis the alternative investment is      *)
(* grown for the accelerated payoff's duration: the number of monthly      *)
(* contributions used for investment_value equals the payoff duration in   *)
(* months that is used for the accelerated schedule's total payments and   *)
(* interest_saved.                                                         *)
(***************************************************************************)
\* payoff_months of the call: the duration early_total_payments uses.
PayoffMonthsOfCall ==
  payoff_months(args.mortgage_balance, args.mortgage_rate,
                res.val.mortgage_payment).val

\* The number of contributions future_investment_value is computed with.
ContributionsOfCall == int(PayoffMonthsOfCall).val

C24_InvestedForPayoffDuration ==
  MortgageReturned =>
    /\ res.val.investment_value =
         future_value_annuity(res.val.extra_payment,
                              FDiv(args.investment_return, FromInt(12)).val,
                              ContributionsOfCall).val
    /\ FEq(FromInt(ContributionsOfCall), PayoffMonthsOfCall)

(***************************************************************************)
(* C27.  For every argument tuple accepted by retirement_age_calculator's  *)
(* validation, the call returns either an age or the never sentinel; it    *)
(* never aborts with an arithmetic failure (division by zero or logarithm  *)
(* of a non-positive number), including when the contribution is zero,     *)
(* savings is positive and the expected return is 0 or -1.                 *)
(***************************************************************************)
C27_AcceptedNeverAborts ==
  RetirementAccepted =>
    /\ IsOk(res)
    /\ res.val = PInf \/ (IsFinite(res.val) /\ IsWhole(res.val))

(***************************************************************************)
(* C28.  Every finite age returned by retirement_age_calculator is at      *)
(* least current_age, for all valid inputs, including a target below       *)
(* current savings and a negative expected return.                         *)
(***************************************************************************)
C28_AgeAtLeastCurrentAge ==
  AgeReturned => FLe(FromInt(args.current_age), res.val)

(***************************************************************************)
(* C29.  When current_savings already equals or exceeds target_nest_egg,   *)
(* retirement_age_calculator returns exactly current_age in every branch   *)
(* (zero contribution, zero return, and the bisection-solver branch).      *)
(***************************************************************************)
C29_GoalMetReturnsCurrentAge ==
  (RetirementAccepted /\ FLe(args.target_nest_egg, args.current_savings)) =>
    res = Ok(FromInt(args.current_age))

(***************************************************************************)
(* C30.  For every valid input of mortgage_vs_invest_analysis, the doubled *)
(* payment strictly exceeds one month's interest on the balance, so the    *)
(* payoff formula's logarithm argument lies in (0, 1]; the accelerated     *)
(* payoff duration is positive and at most half the original term          *)
(* (exactly half when the mortgage rate is 0), and interest_saved is       *)
(* non-negative (exactly 0 when the mortgage rate is 0).                   *)
(***************************************************************************)
\* One month's interest on the balance.
MonthsInterestOfCall ==
  FMul(args.mortgage_balance, FDiv(args.mortgage_rate, FromInt(12)).val)

\* total_monthly_payment: the payment doubled.
DoubledPaymentOfCall ==
  FAdd(res.val.mortgage_payment, res.val.extra_payment)

\* The argument of the first logarithm of _calculate_payoff_time.
LogArgumentOfCall ==
  FSub(One, FDiv(MonthsInterestOfCall, DoubledPaymentOfCall).val)

C30_PayoffWithinHalfTerm ==
  (fn = "mortgage_vs_invest_analysis" /\ ~InvalidInput(res)) =>
    /\ IsOk(res)
    /\ FLt(MonthsInterestOfCall, DoubledPaymentOfCall)
    /\ FLt(Zero, LogArgumentOfCall) /\ FLe(LogArgumentOfCall, One)
    /\ FLt(Zero, PayoffMonthsOfCall)
    /\ FLe(PayoffMonthsOfCall, FromInt(6 * args.mortgage_years))
    /\ FLe(Zero, res.val.interest_saved)
    /\ IsZero(args.mortgage_rate) =>
         /\ FEq(PayoffMonthsOfCall, FromInt(6 * args.mortgage_years))
         /\ IsZero(res.val.interest_saved)

(***************************************************************************)
(* C23.  validate_financial_input(value, field, min_value, max_value)      *)
(* reports valid exactly when value is non-null, numeric, and              *)
(* min_value <= value <= max_value (each bound applied only when given);   *)
(* every invalid outcome carries a non-empty error message and every       *)
(* valid outcome an empty one.                                             *)
(***************************************************************************)
\* A message without text; every piece sequence the function builds holds a
\* literal text, so only the sequence without pieces is empty.
IsEmptyMessage(message) == Len(message) = 0

C23_ValidExactlyWithinBounds ==
  fn = "validate_financial_input" =>
    /\ res.val[1] <=>
         /\ args.value # None
         /\ Only({/\ IsOk(v)
                  /\ args.min_value # None => FLe(args.min_value.val, v.val)
                  /\ args.max_value # None => FLe(v.val, args.max_value.val)
                  : v \in {float(args.value)}})
    /\ res.val[1] => IsEmptyMessage(res.val[2])
    /\ ~res.val[1] => ~IsEmptyMessage(res.val[2])

(***************************************************************************)
(* C25.  Bracket invariant of _solve_for_periods: at every iteration       *)
(* 0 <= low <= mid <= high <= 100, the bracket width high - low is halved  *)
(* by each iteration that does not return, and every value the solver can  *)
(* return lies in [0, 100].                                                *)
(***************************************************************************)
\* 0 <= low <= mid <= high <= 100 in the loop state s.
BracketOrdered(s) ==
  /\ FLe(Zero, s.low) /\ FLe(s.low, mid(s.low, s.high))
  /\ FLe(mid(s.low, s.high), s.high) /\ FLe(s.high, FromInt(SearchHigh))

\* high - low in the loop state s.
Width(s) == FSub(s.high, s.low)

\* A returned value lies in [0, 100].
ReturnedInRange(r) ==
  IsOk(r) => (FLe(Zero, r.val) /\ FLe(r.val, FromInt(SearchHigh)))

\* As stated: every iteration that does not return halves the width.
C25_BracketHalved ==
  [][InLoop =>
       /\ BracketOrdered(res)
       /\ InLoop' => Width(res') = FDiv(Width(res), FromInt(2)).val
       /\ ~InLoop' => ReturnedInRange(res')]_vars

\* C25 as the code has it: an iteration that does not return never widens
\* the bracket, and halves it whenever the midpoint of the two ends is
\* itself a float; once the ends are so close that the midpoint is rounded
\* to one of them, the width stays as it is.
C25_BracketNeverWidens ==
  [][InLoop =>
       /\ BracketOrdered(res)
       /\ InLoop' =>
            /\ FLe(Width(res'), Width(res))
            /\ mid(res.low, res.high) = Mid(res.low, res.high) =>
                 Width(res') = FDiv(Width(res), FromInt(2)).val
       /\ ~InLoop' => ReturnedInRange(res')]_vars

\* The loop has moved both ends of the bracket and is past the iterations
\* whose midpoints are exact.
C25_Witness ==
  /\ InLoop /\ res.it > SignificandBits
  /\ FLt(Zero, res.low) /\ FLt(res.high, FromInt(SearchHigh))
  /\ mid(res.low, res.high) # Mid(res.low, res.high)

(***************************************************************************)
(* The agent's conversation.                                               *)
(***************************************************************************)
\* The call in flight is a chat whose message contains "reset" in any case.
ChatWithReset ==
  /\ fn = "chat"
  /\ contains(lower(args.user_input), <<"r", "e", "s", "e", "t">>)

\* C22: after chat is called with a message containing "reset"
\* (case-insensitive), user_data is empty, whatever it held before and
\* whatever facts the message carried, and the language model was not
\* invoked for the message.
C22_ResetEmptiesUserData ==
  ChatWithReset => user_data = NoData /\ invoked = <<>>

\* C22 witness: a message with "RESET" in capitals that also states facts
\* has been answered, and user_data is empty.
C22_Witness ==
  /\ ChatWithReset
  /\ args.user_input # lower(args.user_input)
  /\ _extract_financial_data(args.user_input) # NoData
  /\ res = Ok([kind |-> "reset"])
  /\ user_data = NoData

\* The required fields without a usable value in user_data.
Unusable(data) == SelectSeq(RequiredFields, LAMBDA f : get(data, f) = None)

\* C26: chat invokes the language model only when the four required
\* fields all have a non-null value in user_data; otherwise it returns the
\* missing-context message, which names at least one field, namely exactly
\* the required fields without a usable value.
C26_MissingNamesUnusableFields ==
  (fn = "chat" /\ ~ChatWithReset) =>
    IF Unusable(user_data) = <<>>
    THEN Len(invoked) = 1 /\ res.val.kind \in {"response", "error"}
    ELSE /\ invoked = <<>>
         /\ res.val.kind = "missing"
         /\ res.val.fields # <<>>
         /\ res.val.fields = Unusable(user_data)


(***************************************************************************)
(* Purity of the engine.                                                   *)
(***************************************************************************)
\* Two callers hold the results of calls of the same function with
\* identical arguments.
SameCall(c, d) ==
  /\ Returned(c) /\ Returned(d)
  /\ calls[c].fn = calls[d].fn
  /\ calls[c].args = calls[d].args

==========================================================================
